---- MODULE Spec2Model ----
(***************************************************************************)
(* The conversation-orchestration engine of LangGraphEcommerceAgent        *)
(* (src/final_site/langgraph_agent.py): the per-turn state machine built   *)
(* by _build_graph, the turn wrapper process_message, and the history      *)
(* store (chat_sessions, chat_messages) written by save_message and        *)
(* delete_session and read by load_session_history.                        *)
(*                                                                         *)
(* Text is modelled as a sequence of one-character strings, so that the    *)
(* string operations of the code (strip, startswith, in, re.sub) are       *)
(* computed character by character.                                         *)
(***************************************************************************)
EXTENDS Integers, Sequences, FiniteSets, TLC

(***************************************************************************)
(* Bounds of the model.                                                    *)
(***************************************************************************)
\* number of process_message calls started in a behaviour
MaxTurns == 2
\* the history store's clock (CURRENT_TIMESTAMP, in seconds) runs from 0 to MaxClock
MaxClock == 1
\* number of store faults (I/O error, locked database) the environment injects
MaxFaults == 1
\* number of delete_session calls started in a behaviour
MaxDeletes == 1
\* number of migrate_database runs in a behaviour
MaxMigrations == 2

\* callers of the agent (the hosting environment runs its sessions concurrently)
Procs == {1, 2}
SessionIds == {"s1", "s2"}

(***************************************************************************)
(* Text helpers: Python str operations on character sequences.             *)
(***************************************************************************)
\* A character is a string: a printable ASCII character is itself, the
\* escapes "\n", "\t", "\r", "\f" are the characters they name, and a
\* character a TLA+ string cannot hold is written by its code point, "U+00A0"
\* (four hexadecimal digits or more).
\* the character U+0060 (grave accent), which a TLA+ string cannot hold
BQ == "grave"

LowerLetters == <<"a", "b", "c", "d", "e", "f", "g", "h", "i", "j", "k", "l", "m", "n", "o", "p", "q", "r", "s", "t", "u", "v", "w", "x", "y", "z">>
UpperLetters == <<"A", "B", "C", "D", "E", "F", "G", "H", "I", "J", "K", "L", "M", "N", "O", "P", "Q", "R", "S", "T", "U", "V", "W", "X", "Y", "Z">>

\* the printable ASCII characters str.upper() leaves as they are
AsciiUnchanged ==
    { " ", "!", "\"", "#", "$", "%", "&", "'", "(", ")", "*", "+",
      ",", "-", ".", "/", "0", "1", "2", "3", "4", "5", "6", "7",
      "8", "9", ":", ";", "<", "=", ">", "?", "@", "A", "B", "C",
      "D", "E", "F", "G", "H", "I", "J", "K", "L", "M", "N", "O",
      "P", "Q", "R", "S", "T", "U", "V", "W", "X", "Y", "Z", "[",
      "\\", "]", "^", "_", BQ, "{", "|", "}", "~" }

\* str.upper() of every character outside ASCII that it changes (CPython
\* 3.11, Unicode 14.0.0): the character and its upper-case text, which has
\* one, two or three characters
UpperTable ==
    << <<"U+00B5", <<"U+039C">>>>, <<"U+00DF", <<"S", "S">>>>, <<"U+00E0", <<"U+00C0">>>>, <<"U+00E1", <<"U+00C1">>>>,
       <<"U+00E2", <<"U+00C2">>>>, <<"U+00E3", <<"U+00C3">>>>, <<"U+00E4", <<"U+00C4">>>>, <<"U+00E5", <<"U+00C5">>>>,
       <<"U+00E6", <<"U+00C6">>>>, <<"U+00E7", <<"U+00C7">>>>, <<"U+00E8", <<"U+00C8">>>>, <<"U+00E9", <<"U+00C9">>>>,
       <<"U+00EA", <<"U+00CA">>>>, <<"U+00EB", <<"U+00CB">>>>, <<"U+00EC", <<"U+00CC">>>>, <<"U+00ED", <<"U+00CD">>>>,
       <<"U+00EE", <<"U+00CE">>>>, <<"U+00EF", <<"U+00CF">>>>, <<"U+00F0", <<"U+00D0">>>>, <<"U+00F1", <<"U+00D1">>>>,
       <<"U+00F2", <<"U+00D2">>>>, <<"U+00F3", <<"U+00D3">>>>, <<"U+00F4", <<"U+00D4">>>>, <<"U+00F5", <<"U+00D5">>>>,
       <<"U+00F6", <<"U+00D6">>>>, <<"U+00F8", <<"U+00D8">>>>, <<"U+00F9", <<"U+00D9">>>>, <<"U+00FA", <<"U+00DA">>>>,
       <<"U+00FB", <<"U+00DB">>>>, <<"U+00FC", <<"U+00DC">>>>, <<"U+00FD", <<"U+00DD">>>>, <<"U+00FE", <<"U+00DE">>>>,
       <<"U+00FF", <<"U+0178">>>>, <<"U+0101", <<"U+0100">>>>, <<"U+0103", <<"U+0102">>>>, <<"U+0105", <<"U+0104">>>>,
       <<"U+0107", <<"U+0106">>>>, <<"U+0109", <<"U+0108">>>>, <<"U+010B", <<"U+010A">>>>, <<"U+010D", <<"U+010C">>>>,
       <<"U+010F", <<"U+010E">>>>, <<"U+0111", <<"U+0110">>>>, <<"U+0113", <<"U+0112">>>>, <<"U+0115", <<"U+0114">>>>,
       <<"U+0117", <<"U+0116">>>>, <<"U+0119", <<"U+0118">>>>, <<"U+011B", <<"U+011A">>>>, <<"U+011D", <<"U+011C">>>>,
       <<"U+011F", <<"U+011E">>>>, <<"U+0121", <<"U+0120">>>>, <<"U+0123", <<"U+0122">>>>, <<"U+0125", <<"U+0124">>>>,
       <<"U+0127", <<"U+0126">>>>, <<"U+0129", <<"U+0128">>>>, <<"U+012B", <<"U+012A">>>>, <<"U+012D", <<"U+012C">>>>,
       <<"U+012F", <<"U+012E">>>>, <<"U+0131", <<"I">>>>, <<"U+0133", <<"U+0132">>>>, <<"U+0135", <<"U+0134">>>>,
       <<"U+0137", <<"U+0136">>>>, <<"U+013A", <<"U+0139">>>>, <<"U+013C", <<"U+013B">>>>, <<"U+013E", <<"U+013D">>>>,
       <<"U+0140", <<"U+013F">>>>, <<"U+0142", <<"U+0141">>>>, <<"U+0144", <<"U+0143">>>>, <<"U+0146", <<"U+0145">>>>,
       <<"U+0148", <<"U+0147">>>>, <<"U+0149", <<"U+02BC", "N">>>>, <<"U+014B", <<"U+014A">>>>, <<"U+014D", <<"U+014C">>>>,
       <<"U+014F", <<"U+014E">>>>, <<"U+0151", <<"U+0150">>>>, <<"U+0153", <<"U+0152">>>>, <<"U+0155", <<"U+0154">>>>,
       <<"U+0157", <<"U+0156">>>>, <<"U+0159", <<"U+0158">>>>, <<"U+015B", <<"U+015A">>>>, <<"U+015D", <<"U+015C">>>>,
       <<"U+015F", <<"U+015E">>>>, <<"U+0161", <<"U+0160">>>>, <<"U+0163", <<"U+0162">>>>, <<"U+0165", <<"U+0164">>>>,
       <<"U+0167", <<"U+0166">>>>, <<"U+0169", <<"U+0168">>>>, <<"U+016B", <<"U+016A">>>>, <<"U+016D", <<"U+016C">>>>,
       <<"U+016F", <<"U+016E">>>>, <<"U+0171", <<"U+0170">>>>, <<"U+0173", <<"U+0172">>>>, <<"U+0175", <<"U+0174">>>>,
       <<"U+0177", <<"U+0176">>>>, <<"U+017A", <<"U+0179">>>>, <<"U+017C", <<"U+017B">>>>, <<"U+017E", <<"U+017D">>>>,
       <<"U+017F", <<"S">>>>, <<"U+0180", <<"U+0243">>>>, <<"U+0183", <<"U+0182">>>>, <<"U+0185", <<"U+0184">>>>,
       <<"U+0188", <<"U+0187">>>>, <<"U+018C", <<"U+018B">>>>, <<"U+0192", <<"U+0191">>>>, <<"U+0195", <<"U+01F6">>>>,
       <<"U+0199", <<"U+0198">>>>, <<"U+019A", <<"U+023D">>>>, <<"U+019E", <<"U+0220">>>>, <<"U+01A1", <<"U+01A0">>>>,
       <<"U+01A3", <<"U+01A2">>>>, <<"U+01A5", <<"U+01A4">>>>, <<"U+01A8", <<"U+01A7">>>>, <<"U+01AD", <<"U+01AC">>>>,
       <<"U+01B0", <<"U+01AF">>>>, <<"U+01B4", <<"U+01B3">>>>, <<"U+01B6", <<"U+01B5">>>>, <<"U+01B9", <<"U+01B8">>>>,
       <<"U+01BD", <<"U+01BC">>>>, <<"U+01BF", <<"U+01F7">>>>, <<"U+01C5", <<"U+01C4">>>>, <<"U+01C6", <<"U+01C4">>>>,
       <<"U+01C8", <<"U+01C7">>>>, <<"U+01C9", <<"U+01C7">>>>, <<"U+01CB", <<"U+01CA">>>>, <<"U+01CC", <<"U+01CA">>>>,
       <<"U+01CE", <<"U+01CD">>>>, <<"U+01D0", <<"U+01CF">>>>, <<"U+01D2", <<"U+01D1">>>>, <<"U+01D4", <<"U+01D3">>>>,
       <<"U+01D6", <<"U+01D5">>>>, <<"U+01D8", <<"U+01D7">>>>, <<"U+01DA", <<"U+01D9">>>>, <<"U+01DC", <<"U+01DB">>>>,
       <<"U+01DD", <<"U+018E">>>>, <<"U+01DF", <<"U+01DE">>>>, <<"U+01E1", <<"U+01E0">>>>, <<"U+01E3", <<"U+01E2">>>>,
       <<"U+01E5", <<"U+01E4">>>>, <<"U+01E7", <<"U+01E6">>>>, <<"U+01E9", <<"U+01E8">>>>, <<"U+01EB", <<"U+01EA">>>>,
       <<"U+01ED", <<"U+01EC">>>>, <<"U+01EF", <<"U+01EE">>>>, <<"U+01F0", <<"J", "U+030C">>>>, <<"U+01F2", <<"U+01F1">>>>,
       <<"U+01F3", <<"U+01F1">>>>, <<"U+01F5", <<"U+01F4">>>>, <<"U+01F9", <<"U+01F8">>>>, <<"U+01FB", <<"U+01FA">>>>,
       <<"U+01FD", <<"U+01FC">>>>, <<"U+01FF", <<"U+01FE">>>>, <<"U+0201", <<"U+0200">>>>, <<"U+0203", <<"U+0202">>>>,
       <<"U+0205", <<"U+0204">>>>, <<"U+0207", <<"U+0206">>>>, <<"U+0209", <<"U+0208">>>>, <<"U+020B", <<"U+020A">>>>,
       <<"U+020D", <<"U+020C">>>>, <<"U+020F", <<"U+020E">>>>, <<"U+0211", <<"U+0210">>>>, <<"U+0213", <<"U+0212">>>>,
       <<"U+0215", <<"U+0214">>>>, <<"U+0217", <<"U+0216">>>>, <<"U+0219", <<"U+0218">>>>, <<"U+021B", <<"U+021A">>>>,
       <<"U+021D", <<"U+021C">>>>, <<"U+021F", <<"U+021E">>>>, <<"U+0223", <<"U+0222">>>>, <<"U+0225", <<"U+0224">>>>,
       <<"U+0227", <<"U+0226">>>>, <<"U+0229", <<"U+0228">>>>, <<"U+022B", <<"U+022A">>>>, <<"U+022D", <<"U+022C">>>>,
       <<"U+022F", <<"U+022E">>>>, <<"U+0231", <<"U+0230">>>>, <<"U+0233", <<"U+0232">>>>, <<"U+023C", <<"U+023B">>>>,
       <<"U+023F", <<"U+2C7E">>>>, <<"U+0240", <<"U+2C7F">>>>, <<"U+0242", <<"U+0241">>>>, <<"U+0247", <<"U+0246">>>>,
       <<"U+0249", <<"U+0248">>>>, <<"U+024B", <<"U+024A">>>>, <<"U+024D", <<"U+024C">>>>, <<"U+024F", <<"U+024E">>>>,
       <<"U+0250", <<"U+2C6F">>>>, <<"U+0251", <<"U+2C6D">>>>, <<"U+0252", <<"U+2C70">>>>, <<"U+0253", <<"U+0181">>>>,
       <<"U+0254", <<"U+0186">>>>, <<"U+0256", <<"U+0189">>>>, <<"U+0257", <<"U+018A">>>>, <<"U+0259", <<"U+018F">>>>,
       <<"U+025B", <<"U+0190">>>>, <<"U+025C", <<"U+A7AB">>>>, <<"U+0260", <<"U+0193">>>>, <<"U+0261", <<"U+A7AC">>>>,
       <<"U+0263", <<"U+0194">>>>, <<"U+0265", <<"U+A78D">>>>, <<"U+0266", <<"U+A7AA">>>>, <<"U+0268", <<"U+0197">>>>,
       <<"U+0269", <<"U+0196">>>>, <<"U+026A", <<"U+A7AE">>>>, <<"U+026B", <<"U+2C62">>>>, <<"U+026C", <<"U+A7AD">>>>,
       <<"U+026F", <<"U+019C">>>>, <<"U+0271", <<"U+2C6E">>>>, <<"U+0272", <<"U+019D">>>>, <<"U+0275", <<"U+019F">>>>,
       <<"U+027D", <<"U+2C64">>>>, <<"U+0280", <<"U+01A6">>>>, <<"U+0282", <<"U+A7C5">>>>, <<"U+0283", <<"U+01A9">>>>,
       <<"U+0287", <<"U+A7B1">>>>, <<"U+0288", <<"U+01AE">>>>, <<"U+0289", <<"U+0244">>>>, <<"U+028A", <<"U+01B1">>>>,
       <<"U+028B", <<"U+01B2">>>>, <<"U+028C", <<"U+0245">>>>, <<"U+0292", <<"U+01B7">>>>, <<"U+029D", <<"U+A7B2">>>>,
       <<"U+029E", <<"U+A7B0">>>>, <<"U+0345", <<"U+0399">>>>, <<"U+0371", <<"U+0370">>>>, <<"U+0373", <<"U+0372">>>>,
       <<"U+0377", <<"U+0376">>>>, <<"U+037B", <<"U+03FD">>>>, <<"U+037C", <<"U+03FE">>>>, <<"U+037D", <<"U+03FF">>>>,
       <<"U+0390", <<"U+0399", "U+0308", "U+0301">>>>, <<"U+03AC", <<"U+0386">>>>, <<"U+03AD", <<"U+0388">>>>, <<"U+03AE", <<"U+0389">>>>,
       <<"U+03AF", <<"U+038A">>>>, <<"U+03B0", <<"U+03A5", "U+0308", "U+0301">>>>, <<"U+03B1", <<"U+0391">>>>, <<"U+03B2", <<"U+0392">>>>,
       <<"U+03B3", <<"U+0393">>>>, <<"U+03B4", <<"U+0394">>>>, <<"U+03B5", <<"U+0395">>>>, <<"U+03B6", <<"U+0396">>>>,
       <<"U+03B7", <<"U+0397">>>>, <<"U+03B8", <<"U+0398">>>>, <<"U+03B9", <<"U+0399">>>>, <<"U+03BA", <<"U+039A">>>>,
       <<"U+03BB", <<"U+039B">>>>, <<"U+03BC", <<"U+039C">>>>, <<"U+03BD", <<"U+039D">>>>, <<"U+03BE", <<"U+039E">>>>,
       <<"U+03BF", <<"U+039F">>>>, <<"U+03C0", <<"U+03A0">>>>, <<"U+03C1", <<"U+03A1">>>>, <<"U+03C2", <<"U+03A3">>>>,
       <<"U+03C3", <<"U+03A3">>>>, <<"U+03C4", <<"U+03A4">>>>, <<"U+03C5", <<"U+03A5">>>>, <<"U+03C6", <<"U+03A6">>>>,
       <<"U+03C7", <<"U+03A7">>>>, <<"U+03C8", <<"U+03A8">>>>, <<"U+03C9", <<"U+03A9">>>>, <<"U+03CA", <<"U+03AA">>>>,
       <<"U+03CB", <<"U+03AB">>>>, <<"U+03CC", <<"U+038C">>>>, <<"U+03CD", <<"U+038E">>>>, <<"U+03CE", <<"U+038F">>>>,
       <<"U+03D0", <<"U+0392">>>>, <<"U+03D1", <<"U+0398">>>>, <<"U+03D5", <<"U+03A6">>>>, <<"U+03D6", <<"U+03A0">>>>,
       <<"U+03D7", <<"U+03CF">>>>, <<"U+03D9", <<"U+03D8">>>>, <<"U+03DB", <<"U+03DA">>>>, <<"U+03DD", <<"U+03DC">>>>,
       <<"U+03DF", <<"U+03DE">>>>, <<"U+03E1", <<"U+03E0">>>>, <<"U+03E3", <<"U+03E2">>>>, <<"U+03E5", <<"U+03E4">>>>,
       <<"U+03E7", <<"U+03E6">>>>, <<"U+03E9", <<"U+03E8">>>>, <<"U+03EB", <<"U+03EA">>>>, <<"U+03ED", <<"U+03EC">>>>,
       <<"U+03EF", <<"U+03EE">>>>, <<"U+03F0", <<"U+039A">>>>, <<"U+03F1", <<"U+03A1">>>>, <<"U+03F2", <<"U+03F9">>>>,
       <<"U+03F3", <<"U+037F">>>>, <<"U+03F5", <<"U+0395">>>>, <<"U+03F8", <<"U+03F7">>>>, <<"U+03FB", <<"U+03FA">>>>,
       <<"U+0430", <<"U+0410">>>>, <<"U+0431", <<"U+0411">>>>, <<"U+0432", <<"U+0412">>>>, <<"U+0433", <<"U+0413">>>>,
       <<"U+0434", <<"U+0414">>>>, <<"U+0435", <<"U+0415">>>>, <<"U+0436", <<"U+0416">>>>, <<"U+0437", <<"U+0417">>>>,
       <<"U+0438", <<"U+0418">>>>, <<"U+0439", <<"U+0419">>>>, <<"U+043A", <<"U+041A">>>>, <<"U+043B", <<"U+041B">>>>,
       <<"U+043C", <<"U+041C">>>>, <<"U+043D", <<"U+041D">>>>, <<"U+043E", <<"U+041E">>>>, <<"U+043F", <<"U+041F">>>>,
       <<"U+0440", <<"U+0420">>>>, <<"U+0441", <<"U+0421">>>>, <<"U+0442", <<"U+0422">>>>, <<"U+0443", <<"U+0423">>>>,
       <<"U+0444", <<"U+0424">>>>, <<"U+0445", <<"U+0425">>>>, <<"U+0446", <<"U+0426">>>>, <<"U+0447", <<"U+0427">>>>,
       <<"U+0448", <<"U+0428">>>>, <<"U+0449", <<"U+0429">>>>, <<"U+044A", <<"U+042A">>>>, <<"U+044B", <<"U+042B">>>>,
       <<"U+044C", <<"U+042C">>>>, <<"U+044D", <<"U+042D">>>>, <<"U+044E", <<"U+042E">>>>, <<"U+044F", <<"U+042F">>>>,
       <<"U+0450", <<"U+0400">>>>, <<"U+0451", <<"U+0401">>>>, <<"U+0452", <<"U+0402">>>>, <<"U+0453", <<"U+0403">>>>,
       <<"U+0454", <<"U+0404">>>>, <<"U+0455", <<"U+0405">>>>, <<"U+0456", <<"U+0406">>>>, <<"U+0457", <<"U+0407">>>>,
       <<"U+0458", <<"U+0408">>>>, <<"U+0459", <<"U+0409">>>>, <<"U+045A", <<"U+040A">>>>, <<"U+045B", <<"U+040B">>>>,
       <<"U+045C", <<"U+040C">>>>, <<"U+045D", <<"U+040D">>>>, <<"U+045E", <<"U+040E">>>>, <<"U+045F", <<"U+040F">>>>,
       <<"U+0461", <<"U+0460">>>>, <<"U+0463", <<"U+0462">>>>, <<"U+0465", <<"U+0464">>>>, <<"U+0467", <<"U+0466">>>>,
       <<"U+0469", <<"U+0468">>>>, <<"U+046B", <<"U+046A">>>>, <<"U+046D", <<"U+046C">>>>, <<"U+046F", <<"U+046E">>>>,
       <<"U+0471", <<"U+0470">>>>, <<"U+0473", <<"U+0472">>>>, <<"U+0475", <<"U+0474">>>>, <<"U+0477", <<"U+0476">>>>,
       <<"U+0479", <<"U+0478">>>>, <<"U+047B", <<"U+047A">>>>, <<"U+047D", <<"U+047C">>>>, <<"U+047F", <<"U+047E">>>>,
       <<"U+0481", <<"U+0480">>>>, <<"U+048B", <<"U+048A">>>>, <<"U+048D", <<"U+048C">>>>, <<"U+048F", <<"U+048E">>>>,
       <<"U+0491", <<"U+0490">>>>, <<"U+0493", <<"U+0492">>>>, <<"U+0495", <<"U+0494">>>>, <<"U+0497", <<"U+0496">>>>,
       <<"U+0499", <<"U+0498">>>>, <<"U+049B", <<"U+049A">>>>, <<"U+049D", <<"U+049C">>>>, <<"U+049F", <<"U+049E">>>>,
       <<"U+04A1", <<"U+04A0">>>>, <<"U+04A3", <<"U+04A2">>>>, <<"U+04A5", <<"U+04A4">>>>, <<"U+04A7", <<"U+04A6">>>>,
       <<"U+04A9", <<"U+04A8">>>>, <<"U+04AB", <<"U+04AA">>>>, <<"U+04AD", <<"U+04AC">>>>, <<"U+04AF", <<"U+04AE">>>>,
       <<"U+04B1", <<"U+04B0">>>>, <<"U+04B3", <<"U+04B2">>>>, <<"U+04B5", <<"U+04B4">>>>, <<"U+04B7", <<"U+04B6">>>>,
       <<"U+04B9", <<"U+04B8">>>>, <<"U+04BB", <<"U+04BA">>>>, <<"U+04BD", <<"U+04BC">>>>, <<"U+04BF", <<"U+04BE">>>>,
       <<"U+04C2", <<"U+04C1">>>>, <<"U+04C4", <<"U+04C3">>>>, <<"U+04C6", <<"U+04C5">>>>, <<"U+04C8", <<"U+04C7">>>>,
       <<"U+04CA", <<"U+04C9">>>>, <<"U+04CC", <<"U+04CB">>>>, <<"U+04CE", <<"U+04CD">>>>, <<"U+04CF", <<"U+04C0">>>>,
       <<"U+04D1", <<"U+04D0">>>>, <<"U+04D3", <<"U+04D2">>>>, <<"U+04D5", <<"U+04D4">>>>, <<"U+04D7", <<"U+04D6">>>>,
       <<"U+04D9", <<"U+04D8">>>>, <<"U+04DB", <<"U+04DA">>>>, <<"U+04DD", <<"U+04DC">>>>, <<"U+04DF", <<"U+04DE">>>>,
       <<"U+04E1", <<"U+04E0">>>>, <<"U+04E3", <<"U+04E2">>>>, <<"U+04E5", <<"U+04E4">>>>, <<"U+04E7", <<"U+04E6">>>>,
       <<"U+04E9", <<"U+04E8">>>>, <<"U+04EB", <<"U+04EA">>>>, <<"U+04ED", <<"U+04EC">>>>, <<"U+04EF", <<"U+04EE">>>>,
       <<"U+04F1", <<"U+04F0">>>>, <<"U+04F3", <<"U+04F2">>>>, <<"U+04F5", <<"U+04F4">>>>, <<"U+04F7", <<"U+04F6">>>>,
       <<"U+04F9", <<"U+04F8">>>>, <<"U+04FB", <<"U+04FA">>>>, <<"U+04FD", <<"U+04FC">>>>, <<"U+04FF", <<"U+04FE">>>>,
       <<"U+0501", <<"U+0500">>>>, <<"U+0503", <<"U+0502">>>>, <<"U+0505", <<"U+0504">>>>, <<"U+0507", <<"U+0506">>>>,
       <<"U+0509", <<"U+0508">>>>, <<"U+050B", <<"U+050A">>>>, <<"U+050D", <<"U+050C">>>>, <<"U+050F", <<"U+050E">>>>,
       <<"U+0511", <<"U+0510">>>>, <<"U+0513", <<"U+0512">>>>, <<"U+0515", <<"U+0514">>>>, <<"U+0517", <<"U+0516">>>>,
       <<"U+0519", <<"U+0518">>>>, <<"U+051B", <<"U+051A">>>>, <<"U+051D", <<"U+051C">>>>, <<"U+051F", <<"U+051E">>>>,
       <<"U+0521", <<"U+0520">>>>, <<"U+0523", <<"U+0522">>>>, <<"U+0525", <<"U+0524">>>>, <<"U+0527", <<"U+0526">>>>,
       <<"U+0529", <<"U+0528">>>>, <<"U+052B", <<"U+052A">>>>, <<"U+052D", <<"U+052C">>>>, <<"U+052F", <<"U+052E">>>>,
       <<"U+0561", <<"U+0531">>>>, <<"U+0562", <<"U+0532">>>>, <<"U+0563", <<"U+0533">>>>, <<"U+0564", <<"U+0534">>>>,
       <<"U+0565", <<"U+0535">>>>, <<"U+0566", <<"U+0536">>>>, <<"U+0567", <<"U+0537">>>>, <<"U+0568", <<"U+0538">>>>,
       <<"U+0569", <<"U+0539">>>>, <<"U+056A", <<"U+053A">>>>, <<"U+056B", <<"U+053B">>>>, <<"U+056C", <<"U+053C">>>>,
       <<"U+056D", <<"U+053D">>>>, <<"U+056E", <<"U+053E">>>>, <<"U+056F", <<"U+053F">>>>, <<"U+0570", <<"U+0540">>>>,
       <<"U+0571", <<"U+0541">>>>, <<"U+0572", <<"U+0542">>>>, <<"U+0573", <<"U+0543">>>>, <<"U+0574", <<"U+0544">>>>,
       <<"U+0575", <<"U+0545">>>>, <<"U+0576", <<"U+0546">>>>, <<"U+0577", <<"U+0547">>>>, <<"U+0578", <<"U+0548">>>>,
       <<"U+0579", <<"U+0549">>>>, <<"U+057A", <<"U+054A">>>>, <<"U+057B", <<"U+054B">>>>, <<"U+057C", <<"U+054C">>>>,
       <<"U+057D", <<"U+054D">>>>, <<"U+057E", <<"U+054E">>>>, <<"U+057F", <<"U+054F">>>>, <<"U+0580", <<"U+0550">>>>,
       <<"U+0581", <<"U+0551">>>>, <<"U+0582", <<"U+0552">>>>, <<"U+0583", <<"U+0553">>>>, <<"U+0584", <<"U+0554">>>>,
       <<"U+0585", <<"U+0555">>>>, <<"U+0586", <<"U+0556">>>>, <<"U+0587", <<"U+0535", "U+0552">>>>, <<"U+10D0", <<"U+1C90">>>>,
       <<"U+10D1", <<"U+1C91">>>>, <<"U+10D2", <<"U+1C92">>>>, <<"U+10D3", <<"U+1C93">>>>, <<"U+10D4", <<"U+1C94">>>>,
       <<"U+10D5", <<"U+1C95">>>>, <<"U+10D6", <<"U+1C96">>>>, <<"U+10D7", <<"U+1C97">>>>, <<"U+10D8", <<"U+1C98">>>>,
       <<"U+10D9", <<"U+1C99">>>>, <<"U+10DA", <<"U+1C9A">>>>, <<"U+10DB", <<"U+1C9B">>>>, <<"U+10DC", <<"U+1C9C">>>>,
       <<"U+10DD", <<"U+1C9D">>>>, <<"U+10DE", <<"U+1C9E">>>>, <<"U+10DF", <<"U+1C9F">>>>, <<"U+10E0", <<"U+1CA0">>>>,
       <<"U+10E1", <<"U+1CA1">>>>, <<"U+10E2", <<"U+1CA2">>>>, <<"U+10E3", <<"U+1CA3">>>>, <<"U+10E4", <<"U+1CA4">>>>,
       <<"U+10E5", <<"U+1CA5">>>>, <<"U+10E6", <<"U+1CA6">>>>, <<"U+10E7", <<"U+1CA7">>>>, <<"U+10E8", <<"U+1CA8">>>>,
       <<"U+10E9", <<"U+1CA9">>>>, <<"U+10EA", <<"U+1CAA">>>>, <<"U+10EB", <<"U+1CAB">>>>, <<"U+10EC", <<"U+1CAC">>>>,
       <<"U+10ED", <<"U+1CAD">>>>, <<"U+10EE", <<"U+1CAE">>>>, <<"U+10EF", <<"U+1CAF">>>>, <<"U+10F0", <<"U+1CB0">>>>,
       <<"U+10F1", <<"U+1CB1">>>>, <<"U+10F2", <<"U+1CB2">>>>, <<"U+10F3", <<"U+1CB3">>>>, <<"U+10F4", <<"U+1CB4">>>>,
       <<"U+10F5", <<"U+1CB5">>>>, <<"U+10F6", <<"U+1CB6">>>>, <<"U+10F7", <<"U+1CB7">>>>, <<"U+10F8", <<"U+1CB8">>>>,
       <<"U+10F9", <<"U+1CB9">>>>, <<"U+10FA", <<"U+1CBA">>>>, <<"U+10FD", <<"U+1CBD">>>>, <<"U+10FE", <<"U+1CBE">>>>,
       <<"U+10FF", <<"U+1CBF">>>>, <<"U+13F8", <<"U+13F0">>>>, <<"U+13F9", <<"U+13F1">>>>, <<"U+13FA", <<"U+13F2">>>>,
       <<"U+13FB", <<"U+13F3">>>>, <<"U+13FC", <<"U+13F4">>>>, <<"U+13FD", <<"U+13F5">>>>, <<"U+1C80", <<"U+0412">>>>,
       <<"U+1C81", <<"U+0414">>>>, <<"U+1C82", <<"U+041E">>>>, <<"U+1C83", <<"U+0421">>>>, <<"U+1C84", <<"U+0422">>>>,
       <<"U+1C85", <<"U+0422">>>>, <<"U+1C86", <<"U+042A">>>>, <<"U+1C87", <<"U+0462">>>>, <<"U+1C88", <<"U+A64A">>>>,
       <<"U+1D79", <<"U+A77D">>>>, <<"U+1D7D", <<"U+2C63">>>>, <<"U+1D8E", <<"U+A7C6">>>>, <<"U+1E01", <<"U+1E00">>>>,
       <<"U+1E03", <<"U+1E02">>>>, <<"U+1E05", <<"U+1E04">>>>, <<"U+1E07", <<"U+1E06">>>>, <<"U+1E09", <<"U+1E08">>>>,
       <<"U+1E0B", <<"U+1E0A">>>>, <<"U+1E0D", <<"U+1E0C">>>>, <<"U+1E0F", <<"U+1E0E">>>>, <<"U+1E11", <<"U+1E10">>>>,
       <<"U+1E13", <<"U+1E12">>>>, <<"U+1E15", <<"U+1E14">>>>, <<"U+1E17", <<"U+1E16">>>>, <<"U+1E19", <<"U+1E18">>>>,
       <<"U+1E1B", <<"U+1E1A">>>>, <<"U+1E1D", <<"U+1E1C">>>>, <<"U+1E1F", <<"U+1E1E">>>>, <<"U+1E21", <<"U+1E20">>>>,
       <<"U+1E23", <<"U+1E22">>>>, <<"U+1E25", <<"U+1E24">>>>, <<"U+1E27", <<"U+1E26">>>>, <<"U+1E29", <<"U+1E28">>>>,
       <<"U+1E2B", <<"U+1E2A">>>>, <<"U+1E2D", <<"U+1E2C">>>>, <<"U+1E2F", <<"U+1E2E">>>>, <<"U+1E31", <<"U+1E30">>>>,
       <<"U+1E33", <<"U+1E32">>>>, <<"U+1E35", <<"U+1E34">>>>, <<"U+1E37", <<"U+1E36">>>>, <<"U+1E39", <<"U+1E38">>>>,
       <<"U+1E3B", <<"U+1E3A">>>>, <<"U+1E3D", <<"U+1E3C">>>>, <<"U+1E3F", <<"U+1E3E">>>>, <<"U+1E41", <<"U+1E40">>>>,
       <<"U+1E43", <<"U+1E42">>>>, <<"U+1E45", <<"U+1E44">>>>, <<"U+1E47", <<"U+1E46">>>>, <<"U+1E49", <<"U+1E48">>>>,
       <<"U+1E4B", <<"U+1E4A">>>>, <<"U+1E4D", <<"U+1E4C">>>>, <<"U+1E4F", <<"U+1E4E">>>>, <<"U+1E51", <<"U+1E50">>>>,
       <<"U+1E53", <<"U+1E52">>>>, <<"U+1E55", <<"U+1E54">>>>, <<"U+1E57", <<"U+1E56">>>>, <<"U+1E59", <<"U+1E58">>>>,
       <<"U+1E5B", <<"U+1E5A">>>>, <<"U+1E5D", <<"U+1E5C">>>>, <<"U+1E5F", <<"U+1E5E">>>>, <<"U+1E61", <<"U+1E60">>>>,
       <<"U+1E63", <<"U+1E62">>>>, <<"U+1E65", <<"U+1E64">>>>, <<"U+1E67", <<"U+1E66">>>>, <<"U+1E69", <<"U+1E68">>>>,
       <<"U+1E6B", <<"U+1E6A">>>>, <<"U+1E6D", <<"U+1E6C">>>>, <<"U+1E6F", <<"U+1E6E">>>>, <<"U+1E71", <<"U+1E70">>>>,
       <<"U+1E73", <<"U+1E72">>>>, <<"U+1E75", <<"U+1E74">>>>, <<"U+1E77", <<"U+1E76">>>>, <<"U+1E79", <<"U+1E78">>>>,
       <<"U+1E7B", <<"U+1E7A">>>>, <<"U+1E7D", <<"U+1E7C">>>>, <<"U+1E7F", <<"U+1E7E">>>>, <<"U+1E81", <<"U+1E80">>>>,
       <<"U+1E83", <<"U+1E82">>>>, <<"U+1E85", <<"U+1E84">>>>, <<"U+1E87", <<"U+1E86">>>>, <<"U+1E89", <<"U+1E88">>>>,
       <<"U+1E8B", <<"U+1E8A">>>>, <<"U+1E8D", <<"U+1E8C">>>>, <<"U+1E8F", <<"U+1E8E">>>>, <<"U+1E91", <<"U+1E90">>>>,
       <<"U+1E93", <<"U+1E92">>>>, <<"U+1E95", <<"U+1E94">>>>, <<"U+1E96", <<"H", "U+0331">>>>, <<"U+1E97", <<"T", "U+0308">>>>,
       <<"U+1E98", <<"W", "U+030A">>>>, <<"U+1E99", <<"Y", "U+030A">>>>, <<"U+1E9A", <<"A", "U+02BE">>>>, <<"U+1E9B", <<"U+1E60">>>>,
       <<"U+1EA1", <<"U+1EA0">>>>, <<"U+1EA3", <<"U+1EA2">>>>, <<"U+1EA5", <<"U+1EA4">>>>, <<"U+1EA7", <<"U+1EA6">>>>,
       <<"U+1EA9", <<"U+1EA8">>>>, <<"U+1EAB", <<"U+1EAA">>>>, <<"U+1EAD", <<"U+1EAC">>>>, <<"U+1EAF", <<"U+1EAE">>>>,
       <<"U+1EB1", <<"U+1EB0">>>>, <<"U+1EB3", <<"U+1EB2">>>>, <<"U+1EB5", <<"U+1EB4">>>>, <<"U+1EB7", <<"U+1EB6">>>>,
       <<"U+1EB9", <<"U+1EB8">>>>, <<"U+1EBB", <<"U+1EBA">>>>, <<"U+1EBD", <<"U+1EBC">>>>, <<"U+1EBF", <<"U+1EBE">>>>,
       <<"U+1EC1", <<"U+1EC0">>>>, <<"U+1EC3", <<"U+1EC2">>>>, <<"U+1EC5", <<"U+1EC4">>>>, <<"U+1EC7", <<"U+1EC6">>>>,
       <<"U+1EC9", <<"U+1EC8">>>>, <<"U+1ECB", <<"U+1ECA">>>>, <<"U+1ECD", <<"U+1ECC">>>>, <<"U+1ECF", <<"U+1ECE">>>>,
       <<"U+1ED1", <<"U+1ED0">>>>, <<"U+1ED3", <<"U+1ED2">>>>, <<"U+1ED5", <<"U+1ED4">>>>, <<"U+1ED7", <<"U+1ED6">>>>,
       <<"U+1ED9", <<"U+1ED8">>>>, <<"U+1EDB", <<"U+1EDA">>>>, <<"U+1EDD", <<"U+1EDC">>>>, <<"U+1EDF", <<"U+1EDE">>>>,
       <<"U+1EE1", <<"U+1EE0">>>>, <<"U+1EE3", <<"U+1EE2">>>>, <<"U+1EE5", <<"U+1EE4">>>>, <<"U+1EE7", <<"U+1EE6">>>>,
       <<"U+1EE9", <<"U+1EE8">>>>, <<"U+1EEB", <<"U+1EEA">>>>, <<"U+1EED", <<"U+1EEC">>>>, <<"U+1EEF", <<"U+1EEE">>>>,
       <<"U+1EF1", <<"U+1EF0">>>>, <<"U+1EF3", <<"U+1EF2">>>>, <<"U+1EF5", <<"U+1EF4">>>>, <<"U+1EF7", <<"U+1EF6">>>>,
       <<"U+1EF9", <<"U+1EF8">>>>, <<"U+1EFB", <<"U+1EFA">>>>, <<"U+1EFD", <<"U+1EFC">>>>, <<"U+1EFF", <<"U+1EFE">>>>,
       <<"U+1F00", <<"U+1F08">>>>, <<"U+1F01", <<"U+1F09">>>>, <<"U+1F02", <<"U+1F0A">>>>, <<"U+1F03", <<"U+1F0B">>>>,
       <<"U+1F04", <<"U+1F0C">>>>, <<"U+1F05", <<"U+1F0D">>>>, <<"U+1F06", <<"U+1F0E">>>>, <<"U+1F07", <<"U+1F0F">>>>,
       <<"U+1F10", <<"U+1F18">>>>, <<"U+1F11", <<"U+1F19">>>>, <<"U+1F12", <<"U+1F1A">>>>, <<"U+1F13", <<"U+1F1B">>>>,
       <<"U+1F14", <<"U+1F1C">>>>, <<"U+1F15", <<"U+1F1D">>>>, <<"U+1F20", <<"U+1F28">>>>, <<"U+1F21", <<"U+1F29">>>>,
       <<"U+1F22", <<"U+1F2A">>>>, <<"U+1F23", <<"U+1F2B">>>>, <<"U+1F24", <<"U+1F2C">>>>, <<"U+1F25", <<"U+1F2D">>>>,
       <<"U+1F26", <<"U+1F2E">>>>, <<"U+1F27", <<"U+1F2F">>>>, <<"U+1F30", <<"U+1F38">>>>, <<"U+1F31", <<"U+1F39">>>>,
       <<"U+1F32", <<"U+1F3A">>>>, <<"U+1F33", <<"U+1F3B">>>>, <<"U+1F34", <<"U+1F3C">>>>, <<"U+1F35", <<"U+1F3D">>>>,
       <<"U+1F36", <<"U+1F3E">>>>, <<"U+1F37", <<"U+1F3F">>>>, <<"U+1F40", <<"U+1F48">>>>, <<"U+1F41", <<"U+1F49">>>>,
       <<"U+1F42", <<"U+1F4A">>>>, <<"U+1F43", <<"U+1F4B">>>>, <<"U+1F44", <<"U+1F4C">>>>, <<"U+1F45", <<"U+1F4D">>>>,
       <<"U+1F50", <<"U+03A5", "U+0313">>>>, <<"U+1F51", <<"U+1F59">>>>, <<"U+1F52", <<"U+03A5", "U+0313", "U+0300">>>>, <<"U+1F53", <<"U+1F5B">>>>,
       <<"U+1F54", <<"U+03A5", "U+0313", "U+0301">>>>, <<"U+1F55", <<"U+1F5D">>>>, <<"U+1F56", <<"U+03A5", "U+0313", "U+0342">>>>, <<"U+1F57", <<"U+1F5F">>>>,
       <<"U+1F60", <<"U+1F68">>>>, <<"U+1F61", <<"U+1F69">>>>, <<"U+1F62", <<"U+1F6A">>>>, <<"U+1F63", <<"U+1F6B">>>>,
       <<"U+1F64", <<"U+1F6C">>>>, <<"U+1F65", <<"U+1F6D">>>>, <<"U+1F66", <<"U+1F6E">>>>, <<"U+1F67", <<"U+1F6F">>>>,
       <<"U+1F70", <<"U+1FBA">>>>, <<"U+1F71", <<"U+1FBB">>>>, <<"U+1F72", <<"U+1FC8">>>>, <<"U+1F73", <<"U+1FC9">>>>,
       <<"U+1F74", <<"U+1FCA">>>>, <<"U+1F75", <<"U+1FCB">>>>, <<"U+1F76", <<"U+1FDA">>>>, <<"U+1F77", <<"U+1FDB">>>>,
       <<"U+1F78", <<"U+1FF8">>>>, <<"U+1F79", <<"U+1FF9">>>>, <<"U+1F7A", <<"U+1FEA">>>>, <<"U+1F7B", <<"U+1FEB">>>>,
       <<"U+1F7C", <<"U+1FFA">>>>, <<"U+1F7D", <<"U+1FFB">>>>, <<"U+1F80", <<"U+1F08", "U+0399">>>>, <<"U+1F81", <<"U+1F09", "U+0399">>>>,
       <<"U+1F82", <<"U+1F0A", "U+0399">>>>, <<"U+1F83", <<"U+1F0B", "U+0399">>>>, <<"U+1F84", <<"U+1F0C", "U+0399">>>>, <<"U+1F85", <<"U+1F0D", "U+0399">>>>,
       <<"U+1F86", <<"U+1F0E", "U+0399">>>>, <<"U+1F87", <<"U+1F0F", "U+0399">>>>, <<"U+1F88", <<"U+1F08", "U+0399">>>>, <<"U+1F89", <<"U+1F09", "U+0399">>>>,
       <<"U+1F8A", <<"U+1F0A", "U+0399">>>>, <<"U+1F8B", <<"U+1F0B", "U+0399">>>>, <<"U+1F8C", <<"U+1F0C", "U+0399">>>>, <<"U+1F8D", <<"U+1F0D", "U+0399">>>>,
       <<"U+1F8E", <<"U+1F0E", "U+0399">>>>, <<"U+1F8F", <<"U+1F0F", "U+0399">>>>, <<"U+1F90", <<"U+1F28", "U+0399">>>>, <<"U+1F91", <<"U+1F29", "U+0399">>>>,
       <<"U+1F92", <<"U+1F2A", "U+0399">>>>, <<"U+1F93", <<"U+1F2B", "U+0399">>>>, <<"U+1F94", <<"U+1F2C", "U+0399">>>>, <<"U+1F95", <<"U+1F2D", "U+0399">>>>,
       <<"U+1F96", <<"U+1F2E", "U+0399">>>>, <<"U+1F97", <<"U+1F2F", "U+0399">>>>, <<"U+1F98", <<"U+1F28", "U+0399">>>>, <<"U+1F99", <<"U+1F29", "U+0399">>>>,
       <<"U+1F9A", <<"U+1F2A", "U+0399">>>>, <<"U+1F9B", <<"U+1F2B", "U+0399">>>>, <<"U+1F9C", <<"U+1F2C", "U+0399">>>>, <<"U+1F9D", <<"U+1F2D", "U+0399">>>>,
       <<"U+1F9E", <<"U+1F2E", "U+0399">>>>, <<"U+1F9F", <<"U+1F2F", "U+0399">>>>, <<"U+1FA0", <<"U+1F68", "U+0399">>>>, <<"U+1FA1", <<"U+1F69", "U+0399">>>>,
       <<"U+1FA2", <<"U+1F6A", "U+0399">>>>, <<"U+1FA3", <<"U+1F6B", "U+0399">>>>, <<"U+1FA4", <<"U+1F6C", "U+0399">>>>, <<"U+1FA5", <<"U+1F6D", "U+0399">>>>,
       <<"U+1FA6", <<"U+1F6E", "U+0399">>>>, <<"U+1FA7", <<"U+1F6F", "U+0399">>>>, <<"U+1FA8", <<"U+1F68", "U+0399">>>>, <<"U+1FA9", <<"U+1F69", "U+0399">>>>,
       <<"U+1FAA", <<"U+1F6A", "U+0399">>>>, <<"U+1FAB", <<"U+1F6B", "U+0399">>>>, <<"U+1FAC", <<"U+1F6C", "U+0399">>>>, <<"U+1FAD", <<"U+1F6D", "U+0399">>>>,
       <<"U+1FAE", <<"U+1F6E", "U+0399">>>>, <<"U+1FAF", <<"U+1F6F", "U+0399">>>>, <<"U+1FB0", <<"U+1FB8">>>>, <<"U+1FB1", <<"U+1FB9">>>>,
       <<"U+1FB2", <<"U+1FBA", "U+0399">>>>, <<"U+1FB3", <<"U+0391", "U+0399">>>>, <<"U+1FB4", <<"U+0386", "U+0399">>>>, <<"U+1FB6", <<"U+0391", "U+0342">>>>,
       <<"U+1FB7", <<"U+0391", "U+0342", "U+0399">>>>, <<"U+1FBC", <<"U+0391", "U+0399">>>>, <<"U+1FBE", <<"U+0399">>>>, <<"U+1FC2", <<"U+1FCA", "U+0399">>>>,
       <<"U+1FC3", <<"U+0397", "U+0399">>>>, <<"U+1FC4", <<"U+0389", "U+0399">>>>, <<"U+1FC6", <<"U+0397", "U+0342">>>>, <<"U+1FC7", <<"U+0397", "U+0342", "U+0399">>>>,
       <<"U+1FCC", <<"U+0397", "U+0399">>>>, <<"U+1FD0", <<"U+1FD8">>>>, <<"U+1FD1", <<"U+1FD9">>>>, <<"U+1FD2", <<"U+0399", "U+0308", "U+0300">>>>,
       <<"U+1FD3", <<"U+0399", "U+0308", "U+0301">>>>, <<"U+1FD6", <<"U+0399", "U+0342">>>>, <<"U+1FD7", <<"U+0399", "U+0308", "U+0342">>>>, <<"U+1FE0", <<"U+1FE8">>>>,
       <<"U+1FE1", <<"U+1FE9">>>>, <<"U+1FE2", <<"U+03A5", "U+0308", "U+0300">>>>, <<"U+1FE3", <<"U+03A5", "U+0308", "U+0301">>>>, <<"U+1FE4", <<"U+03A1", "U+0313">>>>,
       <<"U+1FE5", <<"U+1FEC">>>>, <<"U+1FE6", <<"U+03A5", "U+0342">>>>, <<"U+1FE7", <<"U+03A5", "U+0308", "U+0342">>>>, <<"U+1FF2", <<"U+1FFA", "U+0399">>>>,
       <<"U+1FF3", <<"U+03A9", "U+0399">>>>, <<"U+1FF4", <<"U+038F", "U+0399">>>>, <<"U+1FF6", <<"U+03A9", "U+0342">>>>, <<"U+1FF7", <<"U+03A9", "U+0342", "U+0399">>>>,
       <<"U+1FFC", <<"U+03A9", "U+0399">>>>, <<"U+214E", <<"U+2132">>>>, <<"U+2170", <<"U+2160">>>>, <<"U+2171", <<"U+2161">>>>,
       <<"U+2172", <<"U+2162">>>>, <<"U+2173", <<"U+2163">>>>, <<"U+2174", <<"U+2164">>>>, <<"U+2175", <<"U+2165">>>>,
       <<"U+2176", <<"U+2166">>>>, <<"U+2177", <<"U+2167">>>>, <<"U+2178", <<"U+2168">>>>, <<"U+2179", <<"U+2169">>>>,
       <<"U+217A", <<"U+216A">>>>, <<"U+217B", <<"U+216B">>>>, <<"U+217C", <<"U+216C">>>>, <<"U+217D", <<"U+216D">>>>,
       <<"U+217E", <<"U+216E">>>>, <<"U+217F", <<"U+216F">>>>, <<"U+2184", <<"U+2183">>>>, <<"U+24D0", <<"U+24B6">>>>,
       <<"U+24D1", <<"U+24B7">>>>, <<"U+24D2", <<"U+24B8">>>>, <<"U+24D3", <<"U+24B9">>>>, <<"U+24D4", <<"U+24BA">>>>,
       <<"U+24D5", <<"U+24BB">>>>, <<"U+24D6", <<"U+24BC">>>>, <<"U+24D7", <<"U+24BD">>>>, <<"U+24D8", <<"U+24BE">>>>,
       <<"U+24D9", <<"U+24BF">>>>, <<"U+24DA", <<"U+24C0">>>>, <<"U+24DB", <<"U+24C1">>>>, <<"U+24DC", <<"U+24C2">>>>,
       <<"U+24DD", <<"U+24C3">>>>, <<"U+24DE", <<"U+24C4">>>>, <<"U+24DF", <<"U+24C5">>>>, <<"U+24E0", <<"U+24C6">>>>,
       <<"U+24E1", <<"U+24C7">>>>, <<"U+24E2", <<"U+24C8">>>>, <<"U+24E3", <<"U+24C9">>>>, <<"U+24E4", <<"U+24CA">>>>,
       <<"U+24E5", <<"U+24CB">>>>, <<"U+24E6", <<"U+24CC">>>>, <<"U+24E7", <<"U+24CD">>>>, <<"U+24E8", <<"U+24CE">>>>,
       <<"U+24E9", <<"U+24CF">>>>, <<"U+2C30", <<"U+2C00">>>>, <<"U+2C31", <<"U+2C01">>>>, <<"U+2C32", <<"U+2C02">>>>,
       <<"U+2C33", <<"U+2C03">>>>, <<"U+2C34", <<"U+2C04">>>>, <<"U+2C35", <<"U+2C05">>>>, <<"U+2C36", <<"U+2C06">>>>,
       <<"U+2C37", <<"U+2C07">>>>, <<"U+2C38", <<"U+2C08">>>>, <<"U+2C39", <<"U+2C09">>>>, <<"U+2C3A", <<"U+2C0A">>>>,
       <<"U+2C3B", <<"U+2C0B">>>>, <<"U+2C3C", <<"U+2C0C">>>>, <<"U+2C3D", <<"U+2C0D">>>>, <<"U+2C3E", <<"U+2C0E">>>>,
       <<"U+2C3F", <<"U+2C0F">>>>, <<"U+2C40", <<"U+2C10">>>>, <<"U+2C41", <<"U+2C11">>>>, <<"U+2C42", <<"U+2C12">>>>,
       <<"U+2C43", <<"U+2C13">>>>, <<"U+2C44", <<"U+2C14">>>>, <<"U+2C45", <<"U+2C15">>>>, <<"U+2C46", <<"U+2C16">>>>,
       <<"U+2C47", <<"U+2C17">>>>, <<"U+2C48", <<"U+2C18">>>>, <<"U+2C49", <<"U+2C19">>>>, <<"U+2C4A", <<"U+2C1A">>>>,
       <<"U+2C4B", <<"U+2C1B">>>>, <<"U+2C4C", <<"U+2C1C">>>>, <<"U+2C4D", <<"U+2C1D">>>>, <<"U+2C4E", <<"U+2C1E">>>>,
       <<"U+2C4F", <<"U+2C1F">>>>, <<"U+2C50", <<"U+2C20">>>>, <<"U+2C51", <<"U+2C21">>>>, <<"U+2C52", <<"U+2C22">>>>,
       <<"U+2C53", <<"U+2C23">>>>, <<"U+2C54", <<"U+2C24">>>>, <<"U+2C55", <<"U+2C25">>>>, <<"U+2C56", <<"U+2C26">>>>,
       <<"U+2C57", <<"U+2C27">>>>, <<"U+2C58", <<"U+2C28">>>>, <<"U+2C59", <<"U+2C29">>>>, <<"U+2C5A", <<"U+2C2A">>>>,
       <<"U+2C5B", <<"U+2C2B">>>>, <<"U+2C5C", <<"U+2C2C">>>>, <<"U+2C5D", <<"U+2C2D">>>>, <<"U+2C5E", <<"U+2C2E">>>>,
       <<"U+2C5F", <<"U+2C2F">>>>, <<"U+2C61", <<"U+2C60">>>>, <<"U+2C65", <<"U+023A">>>>, <<"U+2C66", <<"U+023E">>>>,
       <<"U+2C68", <<"U+2C67">>>>, <<"U+2C6A", <<"U+2C69">>>>, <<"U+2C6C", <<"U+2C6B">>>>, <<"U+2C73", <<"U+2C72">>>>,
       <<"U+2C76", <<"U+2C75">>>>, <<"U+2C81", <<"U+2C80">>>>, <<"U+2C83", <<"U+2C82">>>>, <<"U+2C85", <<"U+2C84">>>>,
       <<"U+2C87", <<"U+2C86">>>>, <<"U+2C89", <<"U+2C88">>>>, <<"U+2C8B", <<"U+2C8A">>>>, <<"U+2C8D", <<"U+2C8C">>>>,
       <<"U+2C8F", <<"U+2C8E">>>>, <<"U+2C91", <<"U+2C90">>>>, <<"U+2C93", <<"U+2C92">>>>, <<"U+2C95", <<"U+2C94">>>>,
       <<"U+2C97", <<"U+2C96">>>>, <<"U+2C99", <<"U+2C98">>>>, <<"U+2C9B", <<"U+2C9A">>>>, <<"U+2C9D", <<"U+2C9C">>>>,
       <<"U+2C9F", <<"U+2C9E">>>>, <<"U+2CA1", <<"U+2CA0">>>>, <<"U+2CA3", <<"U+2CA2">>>>, <<"U+2CA5", <<"U+2CA4">>>>,
       <<"U+2CA7", <<"U+2CA6">>>>, <<"U+2CA9", <<"U+2CA8">>>>, <<"U+2CAB", <<"U+2CAA">>>>, <<"U+2CAD", <<"U+2CAC">>>>,
       <<"U+2CAF", <<"U+2CAE">>>>, <<"U+2CB1", <<"U+2CB0">>>>, <<"U+2CB3", <<"U+2CB2">>>>, <<"U+2CB5", <<"U+2CB4">>>>,
       <<"U+2CB7", <<"U+2CB6">>>>, <<"U+2CB9", <<"U+2CB8">>>>, <<"U+2CBB", <<"U+2CBA">>>>, <<"U+2CBD", <<"U+2CBC">>>>,
       <<"U+2CBF", <<"U+2CBE">>>>, <<"U+2CC1", <<"U+2CC0">>>>, <<"U+2CC3", <<"U+2CC2">>>>, <<"U+2CC5", <<"U+2CC4">>>>,
       <<"U+2CC7", <<"U+2CC6">>>>, <<"U+2CC9", <<"U+2CC8">>>>, <<"U+2CCB", <<"U+2CCA">>>>, <<"U+2CCD", <<"U+2CCC">>>>,
       <<"U+2CCF", <<"U+2CCE">>>>, <<"U+2CD1", <<"U+2CD0">>>>, <<"U+2CD3", <<"U+2CD2">>>>, <<"U+2CD5", <<"U+2CD4">>>>,
       <<"U+2CD7", <<"U+2CD6">>>>, <<"U+2CD9", <<"U+2CD8">>>>, <<"U+2CDB", <<"U+2CDA">>>>, <<"U+2CDD", <<"U+2CDC">>>>,
       <<"U+2CDF", <<"U+2CDE">>>>, <<"U+2CE1", <<"U+2CE0">>>>, <<"U+2CE3", <<"U+2CE2">>>>, <<"U+2CEC", <<"U+2CEB">>>>,
       <<"U+2CEE", <<"U+2CED">>>>, <<"U+2CF3", <<"U+2CF2">>>>, <<"U+2D00", <<"U+10A0">>>>, <<"U+2D01", <<"U+10A1">>>>,
       <<"U+2D02", <<"U+10A2">>>>, <<"U+2D03", <<"U+10A3">>>>, <<"U+2D04", <<"U+10A4">>>>, <<"U+2D05", <<"U+10A5">>>>,
       <<"U+2D06", <<"U+10A6">>>>, <<"U+2D07", <<"U+10A7">>>>, <<"U+2D08", <<"U+10A8">>>>, <<"U+2D09", <<"U+10A9">>>>,
       <<"U+2D0A", <<"U+10AA">>>>, <<"U+2D0B", <<"U+10AB">>>>, <<"U+2D0C", <<"U+10AC">>>>, <<"U+2D0D", <<"U+10AD">>>>,
       <<"U+2D0E", <<"U+10AE">>>>, <<"U+2D0F", <<"U+10AF">>>>, <<"U+2D10", <<"U+10B0">>>>, <<"U+2D11", <<"U+10B1">>>>,
       <<"U+2D12", <<"U+10B2">>>>, <<"U+2D13", <<"U+10B3">>>>, <<"U+2D14", <<"U+10B4">>>>, <<"U+2D15", <<"U+10B5">>>>,
       <<"U+2D16", <<"U+10B6">>>>, <<"U+2D17", <<"U+10B7">>>>, <<"U+2D18", <<"U+10B8">>>>, <<"U+2D19", <<"U+10B9">>>>,
       <<"U+2D1A", <<"U+10BA">>>>, <<"U+2D1B", <<"U+10BB">>>>, <<"U+2D1C", <<"U+10BC">>>>, <<"U+2D1D", <<"U+10BD">>>>,
       <<"U+2D1E", <<"U+10BE">>>>, <<"U+2D1F", <<"U+10BF">>>>, <<"U+2D20", <<"U+10C0">>>>, <<"U+2D21", <<"U+10C1">>>>,
       <<"U+2D22", <<"U+10C2">>>>, <<"U+2D23", <<"U+10C3">>>>, <<"U+2D24", <<"U+10C4">>>>, <<"U+2D25", <<"U+10C5">>>>,
       <<"U+2D27", <<"U+10C7">>>>, <<"U+2D2D", <<"U+10CD">>>>, <<"U+A641", <<"U+A640">>>>, <<"U+A643", <<"U+A642">>>>,
       <<"U+A645", <<"U+A644">>>>, <<"U+A647", <<"U+A646">>>>, <<"U+A649", <<"U+A648">>>>, <<"U+A64B", <<"U+A64A">>>>,
       <<"U+A64D", <<"U+A64C">>>>, <<"U+A64F", <<"U+A64E">>>>, <<"U+A651", <<"U+A650">>>>, <<"U+A653", <<"U+A652">>>>,
       <<"U+A655", <<"U+A654">>>>, <<"U+A657", <<"U+A656">>>>, <<"U+A659", <<"U+A658">>>>, <<"U+A65B", <<"U+A65A">>>>,
       <<"U+A65D", <<"U+A65C">>>>, <<"U+A65F", <<"U+A65E">>>>, <<"U+A661", <<"U+A660">>>>, <<"U+A663", <<"U+A662">>>>,
       <<"U+A665", <<"U+A664">>>>, <<"U+A667", <<"U+A666">>>>, <<"U+A669", <<"U+A668">>>>, <<"U+A66B", <<"U+A66A">>>>,
       <<"U+A66D", <<"U+A66C">>>>, <<"U+A681", <<"U+A680">>>>, <<"U+A683", <<"U+A682">>>>, <<"U+A685", <<"U+A684">>>>,
       <<"U+A687", <<"U+A686">>>>, <<"U+A689", <<"U+A688">>>>, <<"U+A68B", <<"U+A68A">>>>, <<"U+A68D", <<"U+A68C">>>>,
       <<"U+A68F", <<"U+A68E">>>>, <<"U+A691", <<"U+A690">>>>, <<"U+A693", <<"U+A692">>>>, <<"U+A695", <<"U+A694">>>>,
       <<"U+A697", <<"U+A696">>>>, <<"U+A699", <<"U+A698">>>>, <<"U+A69B", <<"U+A69A">>>>, <<"U+A723", <<"U+A722">>>>,
       <<"U+A725", <<"U+A724">>>>, <<"U+A727", <<"U+A726">>>>, <<"U+A729", <<"U+A728">>>>, <<"U+A72B", <<"U+A72A">>>>,
       <<"U+A72D", <<"U+A72C">>>>, <<"U+A72F", <<"U+A72E">>>>, <<"U+A733", <<"U+A732">>>>, <<"U+A735", <<"U+A734">>>>,
       <<"U+A737", <<"U+A736">>>>, <<"U+A739", <<"U+A738">>>>, <<"U+A73B", <<"U+A73A">>>>, <<"U+A73D", <<"U+A73C">>>>,
       <<"U+A73F", <<"U+A73E">>>>, <<"U+A741", <<"U+A740">>>>, <<"U+A743", <<"U+A742">>>>, <<"U+A745", <<"U+A744">>>>,
       <<"U+A747", <<"U+A746">>>>, <<"U+A749", <<"U+A748">>>>, <<"U+A74B", <<"U+A74A">>>>, <<"U+A74D", <<"U+A74C">>>>,
       <<"U+A74F", <<"U+A74E">>>>, <<"U+A751", <<"U+A750">>>>, <<"U+A753", <<"U+A752">>>>, <<"U+A755", <<"U+A754">>>>,
       <<"U+A757", <<"U+A756">>>>, <<"U+A759", <<"U+A758">>>>, <<"U+A75B", <<"U+A75A">>>>, <<"U+A75D", <<"U+A75C">>>>,
       <<"U+A75F", <<"U+A75E">>>>, <<"U+A761", <<"U+A760">>>>, <<"U+A763", <<"U+A762">>>>, <<"U+A765", <<"U+A764">>>>,
       <<"U+A767", <<"U+A766">>>>, <<"U+A769", <<"U+A768">>>>, <<"U+A76B", <<"U+A76A">>>>, <<"U+A76D", <<"U+A76C">>>>,
       <<"U+A76F", <<"U+A76E">>>>, <<"U+A77A", <<"U+A779">>>>, <<"U+A77C", <<"U+A77B">>>>, <<"U+A77F", <<"U+A77E">>>>,
       <<"U+A781", <<"U+A780">>>>, <<"U+A783", <<"U+A782">>>>, <<"U+A785", <<"U+A784">>>>, <<"U+A787", <<"U+A786">>>>,
       <<"U+A78C", <<"U+A78B">>>>, <<"U+A791", <<"U+A790">>>>, <<"U+A793", <<"U+A792">>>>, <<"U+A794", <<"U+A7C4">>>>,
       <<"U+A797", <<"U+A796">>>>, <<"U+A799", <<"U+A798">>>>, <<"U+A79B", <<"U+A79A">>>>, <<"U+A79D", <<"U+A79C">>>>,
       <<"U+A79F", <<"U+A79E">>>>, <<"U+A7A1", <<"U+A7A0">>>>, <<"U+A7A3", <<"U+A7A2">>>>, <<"U+A7A5", <<"U+A7A4">>>>,
       <<"U+A7A7", <<"U+A7A6">>>>, <<"U+A7A9", <<"U+A7A8">>>>, <<"U+A7B5", <<"U+A7B4">>>>, <<"U+A7B7", <<"U+A7B6">>>>,
       <<"U+A7B9", <<"U+A7B8">>>>, <<"U+A7BB", <<"U+A7BA">>>>, <<"U+A7BD", <<"U+A7BC">>>>, <<"U+A7BF", <<"U+A7BE">>>>,
       <<"U+A7C1", <<"U+A7C0">>>>, <<"U+A7C3", <<"U+A7C2">>>>, <<"U+A7C8", <<"U+A7C7">>>>, <<"U+A7CA", <<"U+A7C9">>>>,
       <<"U+A7D1", <<"U+A7D0">>>>, <<"U+A7D7", <<"U+A7D6">>>>, <<"U+A7D9", <<"U+A7D8">>>>, <<"U+A7F6", <<"U+A7F5">>>>,
       <<"U+AB53", <<"U+A7B3">>>>, <<"U+AB70", <<"U+13A0">>>>, <<"U+AB71", <<"U+13A1">>>>, <<"U+AB72", <<"U+13A2">>>>,
       <<"U+AB73", <<"U+13A3">>>>, <<"U+AB74", <<"U+13A4">>>>, <<"U+AB75", <<"U+13A5">>>>, <<"U+AB76", <<"U+13A6">>>>,
       <<"U+AB77", <<"U+13A7">>>>, <<"U+AB78", <<"U+13A8">>>>, <<"U+AB79", <<"U+13A9">>>>, <<"U+AB7A", <<"U+13AA">>>>,
       <<"U+AB7B", <<"U+13AB">>>>, <<"U+AB7C", <<"U+13AC">>>>, <<"U+AB7D", <<"U+13AD">>>>, <<"U+AB7E", <<"U+13AE">>>>,
       <<"U+AB7F", <<"U+13AF">>>>, <<"U+AB80", <<"U+13B0">>>>, <<"U+AB81", <<"U+13B1">>>>, <<"U+AB82", <<"U+13B2">>>>,
       <<"U+AB83", <<"U+13B3">>>>, <<"U+AB84", <<"U+13B4">>>>, <<"U+AB85", <<"U+13B5">>>>, <<"U+AB86", <<"U+13B6">>>>,
       <<"U+AB87", <<"U+13B7">>>>, <<"U+AB88", <<"U+13B8">>>>, <<"U+AB89", <<"U+13B9">>>>, <<"U+AB8A", <<"U+13BA">>>>,
       <<"U+AB8B", <<"U+13BB">>>>, <<"U+AB8C", <<"U+13BC">>>>, <<"U+AB8D", <<"U+13BD">>>>, <<"U+AB8E", <<"U+13BE">>>>,
       <<"U+AB8F", <<"U+13BF">>>>, <<"U+AB90", <<"U+13C0">>>>, <<"U+AB91", <<"U+13C1">>>>, <<"U+AB92", <<"U+13C2">>>>,
       <<"U+AB93", <<"U+13C3">>>>, <<"U+AB94", <<"U+13C4">>>>, <<"U+AB95", <<"U+13C5">>>>, <<"U+AB96", <<"U+13C6">>>>,
       <<"U+AB97", <<"U+13C7">>>>, <<"U+AB98", <<"U+13C8">>>>, <<"U+AB99", <<"U+13C9">>>>, <<"U+AB9A", <<"U+13CA">>>>,
       <<"U+AB9B", <<"U+13CB">>>>, <<"U+AB9C", <<"U+13CC">>>>, <<"U+AB9D", <<"U+13CD">>>>, <<"U+AB9E", <<"U+13CE">>>>,
       <<"U+AB9F", <<"U+13CF">>>>, <<"U+ABA0", <<"U+13D0">>>>, <<"U+ABA1", <<"U+13D1">>>>, <<"U+ABA2", <<"U+13D2">>>>,
       <<"U+ABA3", <<"U+13D3">>>>, <<"U+ABA4", <<"U+13D4">>>>, <<"U+ABA5", <<"U+13D5">>>>, <<"U+ABA6", <<"U+13D6">>>>,
       <<"U+ABA7", <<"U+13D7">>>>, <<"U+ABA8", <<"U+13D8">>>>, <<"U+ABA9", <<"U+13D9">>>>, <<"U+ABAA", <<"U+13DA">>>>,
       <<"U+ABAB", <<"U+13DB">>>>, <<"U+ABAC", <<"U+13DC">>>>, <<"U+ABAD", <<"U+13DD">>>>, <<"U+ABAE", <<"U+13DE">>>>,
       <<"U+ABAF", <<"U+13DF">>>>, <<"U+ABB0", <<"U+13E0">>>>, <<"U+ABB1", <<"U+13E1">>>>, <<"U+ABB2", <<"U+13E2">>>>,
       <<"U+ABB3", <<"U+13E3">>>>, <<"U+ABB4", <<"U+13E4">>>>, <<"U+ABB5", <<"U+13E5">>>>, <<"U+ABB6", <<"U+13E6">>>>,
       <<"U+ABB7", <<"U+13E7">>>>, <<"U+ABB8", <<"U+13E8">>>>, <<"U+ABB9", <<"U+13E9">>>>, <<"U+ABBA", <<"U+13EA">>>>,
       <<"U+ABBB", <<"U+13EB">>>>, <<"U+ABBC", <<"U+13EC">>>>, <<"U+ABBD", <<"U+13ED">>>>, <<"U+ABBE", <<"U+13EE">>>>,
       <<"U+ABBF", <<"U+13EF">>>>, <<"U+FB00", <<"F", "F">>>>, <<"U+FB01", <<"F", "I">>>>, <<"U+FB02", <<"F", "L">>>>,
       <<"U+FB03", <<"F", "F", "I">>>>, <<"U+FB04", <<"F", "F", "L">>>>, <<"U+FB05", <<"S", "T">>>>, <<"U+FB06", <<"S", "T">>>>,
       <<"U+FB13", <<"U+0544", "U+0546">>>>, <<"U+FB14", <<"U+0544", "U+0535">>>>, <<"U+FB15", <<"U+0544", "U+053B">>>>, <<"U+FB16", <<"U+054E", "U+0546">>>>,
       <<"U+FB17", <<"U+0544", "U+053D">>>>, <<"U+FF41", <<"U+FF21">>>>, <<"U+FF42", <<"U+FF22">>>>, <<"U+FF43", <<"U+FF23">>>>,
       <<"U+FF44", <<"U+FF24">>>>, <<"U+FF45", <<"U+FF25">>>>, <<"U+FF46", <<"U+FF26">>>>, <<"U+FF47", <<"U+FF27">>>>,
       <<"U+FF48", <<"U+FF28">>>>, <<"U+FF49", <<"U+FF29">>>>, <<"U+FF4A", <<"U+FF2A">>>>, <<"U+FF4B", <<"U+FF2B">>>>,
       <<"U+FF4C", <<"U+FF2C">>>>, <<"U+FF4D", <<"U+FF2D">>>>, <<"U+FF4E", <<"U+FF2E">>>>, <<"U+FF4F", <<"U+FF2F">>>>,
       <<"U+FF50", <<"U+FF30">>>>, <<"U+FF51", <<"U+FF31">>>>, <<"U+FF52", <<"U+FF32">>>>, <<"U+FF53", <<"U+FF33">>>>,
       <<"U+FF54", <<"U+FF34">>>>, <<"U+FF55", <<"U+FF35">>>>, <<"U+FF56", <<"U+FF36">>>>, <<"U+FF57", <<"U+FF37">>>>,
       <<"U+FF58", <<"U+FF38">>>>, <<"U+FF59", <<"U+FF39">>>>, <<"U+FF5A", <<"U+FF3A">>>>, <<"U+10428", <<"U+10400">>>>,
       <<"U+10429", <<"U+10401">>>>, <<"U+1042A", <<"U+10402">>>>, <<"U+1042B", <<"U+10403">>>>, <<"U+1042C", <<"U+10404">>>>,
       <<"U+1042D", <<"U+10405">>>>, <<"U+1042E", <<"U+10406">>>>, <<"U+1042F", <<"U+10407">>>>, <<"U+10430", <<"U+10408">>>>,
       <<"U+10431", <<"U+10409">>>>, <<"U+10432", <<"U+1040A">>>>, <<"U+10433", <<"U+1040B">>>>, <<"U+10434", <<"U+1040C">>>>,
       <<"U+10435", <<"U+1040D">>>>, <<"U+10436", <<"U+1040E">>>>, <<"U+10437", <<"U+1040F">>>>, <<"U+10438", <<"U+10410">>>>,
       <<"U+10439", <<"U+10411">>>>, <<"U+1043A", <<"U+10412">>>>, <<"U+1043B", <<"U+10413">>>>, <<"U+1043C", <<"U+10414">>>>,
       <<"U+1043D", <<"U+10415">>>>, <<"U+1043E", <<"U+10416">>>>, <<"U+1043F", <<"U+10417">>>>, <<"U+10440", <<"U+10418">>>>,
       <<"U+10441", <<"U+10419">>>>, <<"U+10442", <<"U+1041A">>>>, <<"U+10443", <<"U+1041B">>>>, <<"U+10444", <<"U+1041C">>>>,
       <<"U+10445", <<"U+1041D">>>>, <<"U+10446", <<"U+1041E">>>>, <<"U+10447", <<"U+1041F">>>>, <<"U+10448", <<"U+10420">>>>,
       <<"U+10449", <<"U+10421">>>>, <<"U+1044A", <<"U+10422">>>>, <<"U+1044B", <<"U+10423">>>>, <<"U+1044C", <<"U+10424">>>>,
       <<"U+1044D", <<"U+10425">>>>, <<"U+1044E", <<"U+10426">>>>, <<"U+1044F", <<"U+10427">>>>, <<"U+104D8", <<"U+104B0">>>>,
       <<"U+104D9", <<"U+104B1">>>>, <<"U+104DA", <<"U+104B2">>>>, <<"U+104DB", <<"U+104B3">>>>, <<"U+104DC", <<"U+104B4">>>>,
       <<"U+104DD", <<"U+104B5">>>>, <<"U+104DE", <<"U+104B6">>>>, <<"U+104DF", <<"U+104B7">>>>, <<"U+104E0", <<"U+104B8">>>>,
       <<"U+104E1", <<"U+104B9">>>>, <<"U+104E2", <<"U+104BA">>>>, <<"U+104E3", <<"U+104BB">>>>, <<"U+104E4", <<"U+104BC">>>>,
       <<"U+104E5", <<"U+104BD">>>>, <<"U+104E6", <<"U+104BE">>>>, <<"U+104E7", <<"U+104BF">>>>, <<"U+104E8", <<"U+104C0">>>>,
       <<"U+104E9", <<"U+104C1">>>>, <<"U+104EA", <<"U+104C2">>>>, <<"U+104EB", <<"U+104C3">>>>, <<"U+104EC", <<"U+104C4">>>>,
       <<"U+104ED", <<"U+104C5">>>>, <<"U+104EE", <<"U+104C6">>>>, <<"U+104EF", <<"U+104C7">>>>, <<"U+104F0", <<"U+104C8">>>>,
       <<"U+104F1", <<"U+104C9">>>>, <<"U+104F2", <<"U+104CA">>>>, <<"U+104F3", <<"U+104CB">>>>, <<"U+104F4", <<"U+104CC">>>>,
       <<"U+104F5", <<"U+104CD">>>>, <<"U+104F6", <<"U+104CE">>>>, <<"U+104F7", <<"U+104CF">>>>, <<"U+104F8", <<"U+104D0">>>>,
       <<"U+104F9", <<"U+104D1">>>>, <<"U+104FA", <<"U+104D2">>>>, <<"U+104FB", <<"U+104D3">>>>, <<"U+10597", <<"U+10570">>>>,
       <<"U+10598", <<"U+10571">>>>, <<"U+10599", <<"U+10572">>>>, <<"U+1059A", <<"U+10573">>>>, <<"U+1059B", <<"U+10574">>>>,
       <<"U+1059C", <<"U+10575">>>>, <<"U+1059D", <<"U+10576">>>>, <<"U+1059E", <<"U+10577">>>>, <<"U+1059F", <<"U+10578">>>>,
       <<"U+105A0", <<"U+10579">>>>, <<"U+105A1", <<"U+1057A">>>>, <<"U+105A3", <<"U+1057C">>>>, <<"U+105A4", <<"U+1057D">>>>,
       <<"U+105A5", <<"U+1057E">>>>, <<"U+105A6", <<"U+1057F">>>>, <<"U+105A7", <<"U+10580">>>>, <<"U+105A8", <<"U+10581">>>>,
       <<"U+105A9", <<"U+10582">>>>, <<"U+105AA", <<"U+10583">>>>, <<"U+105AB", <<"U+10584">>>>, <<"U+105AC", <<"U+10585">>>>,
       <<"U+105AD", <<"U+10586">>>>, <<"U+105AE", <<"U+10587">>>>, <<"U+105AF", <<"U+10588">>>>, <<"U+105B0", <<"U+10589">>>>,
       <<"U+105B1", <<"U+1058A">>>>, <<"U+105B3", <<"U+1058C">>>>, <<"U+105B4", <<"U+1058D">>>>, <<"U+105B5", <<"U+1058E">>>>,
       <<"U+105B6", <<"U+1058F">>>>, <<"U+105B7", <<"U+10590">>>>, <<"U+105B8", <<"U+10591">>>>, <<"U+105B9", <<"U+10592">>>>,
       <<"U+105BB", <<"U+10594">>>>, <<"U+105BC", <<"U+10595">>>>, <<"U+10CC0", <<"U+10C80">>>>, <<"U+10CC1", <<"U+10C81">>>>,
       <<"U+10CC2", <<"U+10C82">>>>, <<"U+10CC3", <<"U+10C83">>>>, <<"U+10CC4", <<"U+10C84">>>>, <<"U+10CC5", <<"U+10C85">>>>,
       <<"U+10CC6", <<"U+10C86">>>>, <<"U+10CC7", <<"U+10C87">>>>, <<"U+10CC8", <<"U+10C88">>>>, <<"U+10CC9", <<"U+10C89">>>>,
       <<"U+10CCA", <<"U+10C8A">>>>, <<"U+10CCB", <<"U+10C8B">>>>, <<"U+10CCC", <<"U+10C8C">>>>, <<"U+10CCD", <<"U+10C8D">>>>,
       <<"U+10CCE", <<"U+10C8E">>>>, <<"U+10CCF", <<"U+10C8F">>>>, <<"U+10CD0", <<"U+10C90">>>>, <<"U+10CD1", <<"U+10C91">>>>,
       <<"U+10CD2", <<"U+10C92">>>>, <<"U+10CD3", <<"U+10C93">>>>, <<"U+10CD4", <<"U+10C94">>>>, <<"U+10CD5", <<"U+10C95">>>>,
       <<"U+10CD6", <<"U+10C96">>>>, <<"U+10CD7", <<"U+10C97">>>>, <<"U+10CD8", <<"U+10C98">>>>, <<"U+10CD9", <<"U+10C99">>>>,
       <<"U+10CDA", <<"U+10C9A">>>>, <<"U+10CDB", <<"U+10C9B">>>>, <<"U+10CDC", <<"U+10C9C">>>>, <<"U+10CDD", <<"U+10C9D">>>>,
       <<"U+10CDE", <<"U+10C9E">>>>, <<"U+10CDF", <<"U+10C9F">>>>, <<"U+10CE0", <<"U+10CA0">>>>, <<"U+10CE1", <<"U+10CA1">>>>,
       <<"U+10CE2", <<"U+10CA2">>>>, <<"U+10CE3", <<"U+10CA3">>>>, <<"U+10CE4", <<"U+10CA4">>>>, <<"U+10CE5", <<"U+10CA5">>>>,
       <<"U+10CE6", <<"U+10CA6">>>>, <<"U+10CE7", <<"U+10CA7">>>>, <<"U+10CE8", <<"U+10CA8">>>>, <<"U+10CE9", <<"U+10CA9">>>>,
       <<"U+10CEA", <<"U+10CAA">>>>, <<"U+10CEB", <<"U+10CAB">>>>, <<"U+10CEC", <<"U+10CAC">>>>, <<"U+10CED", <<"U+10CAD">>>>,
       <<"U+10CEE", <<"U+10CAE">>>>, <<"U+10CEF", <<"U+10CAF">>>>, <<"U+10CF0", <<"U+10CB0">>>>, <<"U+10CF1", <<"U+10CB1">>>>,
       <<"U+10CF2", <<"U+10CB2">>>>, <<"U+118C0", <<"U+118A0">>>>, <<"U+118C1", <<"U+118A1">>>>, <<"U+118C2", <<"U+118A2">>>>,
       <<"U+118C3", <<"U+118A3">>>>, <<"U+118C4", <<"U+118A4">>>>, <<"U+118C5", <<"U+118A5">>>>, <<"U+118C6", <<"U+118A6">>>>,
       <<"U+118C7", <<"U+118A7">>>>, <<"U+118C8", <<"U+118A8">>>>, <<"U+118C9", <<"U+118A9">>>>, <<"U+118CA", <<"U+118AA">>>>,
       <<"U+118CB", <<"U+118AB">>>>, <<"U+118CC", <<"U+118AC">>>>, <<"U+118CD", <<"U+118AD">>>>, <<"U+118CE", <<"U+118AE">>>>,
       <<"U+118CF", <<"U+118AF">>>>, <<"U+118D0", <<"U+118B0">>>>, <<"U+118D1", <<"U+118B1">>>>, <<"U+118D2", <<"U+118B2">>>>,
       <<"U+118D3", <<"U+118B3">>>>, <<"U+118D4", <<"U+118B4">>>>, <<"U+118D5", <<"U+118B5">>>>, <<"U+118D6", <<"U+118B6">>>>,
       <<"U+118D7", <<"U+118B7">>>>, <<"U+118D8", <<"U+118B8">>>>, <<"U+118D9", <<"U+118B9">>>>, <<"U+118DA", <<"U+118BA">>>>,
       <<"U+118DB", <<"U+118BB">>>>, <<"U+118DC", <<"U+118BC">>>>, <<"U+118DD", <<"U+118BD">>>>, <<"U+118DE", <<"U+118BE">>>>,
       <<"U+118DF", <<"U+118BF">>>>, <<"U+16E60", <<"U+16E40">>>>, <<"U+16E61", <<"U+16E41">>>>, <<"U+16E62", <<"U+16E42">>>>,
       <<"U+16E63", <<"U+16E43">>>>, <<"U+16E64", <<"U+16E44">>>>, <<"U+16E65", <<"U+16E45">>>>, <<"U+16E66", <<"U+16E46">>>>,
       <<"U+16E67", <<"U+16E47">>>>, <<"U+16E68", <<"U+16E48">>>>, <<"U+16E69", <<"U+16E49">>>>, <<"U+16E6A", <<"U+16E4A">>>>,
       <<"U+16E6B", <<"U+16E4B">>>>, <<"U+16E6C", <<"U+16E4C">>>>, <<"U+16E6D", <<"U+16E4D">>>>, <<"U+16E6E", <<"U+16E4E">>>>,
       <<"U+16E6F", <<"U+16E4F">>>>, <<"U+16E70", <<"U+16E50">>>>, <<"U+16E71", <<"U+16E51">>>>, <<"U+16E72", <<"U+16E52">>>>,
       <<"U+16E73", <<"U+16E53">>>>, <<"U+16E74", <<"U+16E54">>>>, <<"U+16E75", <<"U+16E55">>>>, <<"U+16E76", <<"U+16E56">>>>,
       <<"U+16E77", <<"U+16E57">>>>, <<"U+16E78", <<"U+16E58">>>>, <<"U+16E79", <<"U+16E59">>>>, <<"U+16E7A", <<"U+16E5A">>>>,
       <<"U+16E7B", <<"U+16E5B">>>>, <<"U+16E7C", <<"U+16E5C">>>>, <<"U+16E7D", <<"U+16E5D">>>>, <<"U+16E7E", <<"U+16E5E">>>>,
       <<"U+16E7F", <<"U+16E5F">>>>, <<"U+1E922", <<"U+1E900">>>>, <<"U+1E923", <<"U+1E901">>>>, <<"U+1E924", <<"U+1E902">>>>,
       <<"U+1E925", <<"U+1E903">>>>, <<"U+1E926", <<"U+1E904">>>>, <<"U+1E927", <<"U+1E905">>>>, <<"U+1E928", <<"U+1E906">>>>,
       <<"U+1E929", <<"U+1E907">>>>, <<"U+1E92A", <<"U+1E908">>>>, <<"U+1E92B", <<"U+1E909">>>>, <<"U+1E92C", <<"U+1E90A">>>>,
       <<"U+1E92D", <<"U+1E90B">>>>, <<"U+1E92E", <<"U+1E90C">>>>, <<"U+1E92F", <<"U+1E90D">>>>, <<"U+1E930", <<"U+1E90E">>>>,
       <<"U+1E931", <<"U+1E90F">>>>, <<"U+1E932", <<"U+1E910">>>>, <<"U+1E933", <<"U+1E911">>>>, <<"U+1E934", <<"U+1E912">>>>,
       <<"U+1E935", <<"U+1E913">>>>, <<"U+1E936", <<"U+1E914">>>>, <<"U+1E937", <<"U+1E915">>>>, <<"U+1E938", <<"U+1E916">>>>,
       <<"U+1E939", <<"U+1E917">>>>, <<"U+1E93A", <<"U+1E918">>>>, <<"U+1E93B", <<"U+1E919">>>>, <<"U+1E93C", <<"U+1E91A">>>>,
       <<"U+1E93D", <<"U+1E91B">>>>, <<"U+1E93E", <<"U+1E91C">>>>, <<"U+1E93F", <<"U+1E91D">>>>, <<"U+1E940", <<"U+1E91E">>>>,
       <<"U+1E941", <<"U+1E91F">>>>, <<"U+1E942", <<"U+1E920">>>>, <<"U+1E943", <<"U+1E921">>>> >>

UpperTableKeys == { UpperTable[i][1] : i \in 1..Len(UpperTable) }

\* str.upper() on one character: a text of one to three characters
UpperChar(c) ==
    IF \E i \in 1..Len(LowerLetters) : LowerLetters[i] = c
    THEN <<UpperLetters[CHOOSE i \in 1..Len(LowerLetters) : LowerLetters[i] = c]>>
    ELSE IF c \in AsciiUnchanged THEN <<c>>
    ELSE IF c \in UpperTableKeys
    THEN UpperTable[CHOOSE i \in 1..Len(UpperTable) : UpperTable[i][1] = c][2]
    ELSE <<c>>

\* str.upper()
RECURSIVE Upper(_)
Upper(s) == IF s = <<>> THEN <<>> ELSE UpperChar(Head(s)) \o Upper(Tail(s))

\* str.startswith(prefix)
StartsWith(s, prefix) ==
    /\ Len(s) >= Len(prefix)
    /\ SubSeq(s, 1, Len(prefix)) = prefix

\* sub in s
Contains(s, sub) ==
    \E i \in 0..(Len(s) - Len(sub)) : SubSeq(s, i + 1, i + Len(sub)) = sub

\* the characters str.strip(), str.split() and the regex class \s (on str
\* patterns) treat as whitespace: those str.isspace() holds for
SpaceChars ==
    { "\t", "\n", "U+000B", "\f", "\r", "U+001C",
      "U+001D", "U+001E", "U+001F", " ", "U+0085", "U+00A0",
      "U+1680", "U+2000", "U+2001", "U+2002", "U+2003", "U+2004",
      "U+2005", "U+2006", "U+2007", "U+2008", "U+2009", "U+200A",
      "U+2028", "U+2029", "U+202F", "U+205F", "U+3000" }
IsSpace(c) == c \in SpaceChars

RECURSIVE LStrip(_)
LStrip(s) == IF s # <<>> /\ IsSpace(Head(s)) THEN LStrip(Tail(s)) ELSE s

RECURSIVE RStrip(_)
RStrip(s) ==
    IF s # <<>> /\ IsSpace(s[Len(s)]) THEN RStrip(SubSeq(s, 1, Len(s) - 1)) ELSE s

\* str.strip()
Strip(s) == RStrip(LStrip(s))

\* str.rstrip(chars)
RECURSIVE RStripChars(_, _)
RStripChars(s, chars) ==
    IF s # <<>> /\ s[Len(s)] \in chars
    THEN RStripChars(SubSeq(s, 1, Len(s) - 1), chars)
    ELSE s

\* re.sub(pat + r'\s*', '', s): every leftmost non-overlapping match of the
\* literal pat, with the whitespace that follows it, is removed
RECURSIVE RemoveAll(_, _)
RemoveAll(pat, s) ==
    IF s = <<>> THEN <<>>
    ELSE IF StartsWith(s, pat)
         THEN RemoveAll(pat, LStrip(SubSeq(s, Len(pat) + 1, Len(s))))
         ELSE <<Head(s)>> \o RemoveAll(pat, Tail(s))

\* ' '.join(s.split()): runs of whitespace become one blank, none at the ends
RECURSIVE JoinSplit(_)
JoinSplit(s) ==
    LET t == LStrip(s) IN
    IF t = <<>> THEN <<>>
    ELSE IF IsSpace(Head(s)) THEN JoinSplit(t)
    ELSE IF Len(s) >= 2 /\ IsSpace(s[2])
         THEN IF LStrip(Tail(s)) = <<>> THEN <<Head(s)>>
              ELSE <<Head(s), " ">> \o JoinSplit(LStrip(Tail(s)))
         ELSE <<Head(s)>> \o JoinSplit(Tail(s))

\* str(n) for the small numbers of the model
Digits == <<"0", "1", "2", "3", "4", "5", "6", "7", "8", "9">>
RECURSIVE IntToStr(_)
IntToStr(n) ==
    IF n < 10 THEN <<Digits[n + 1]>>
    ELSE IntToStr(n \div 10) \o <<Digits[(n % 10) + 1]>>

(***************************************************************************)
(* _generate_sql_node, lines 236-243: cleaning of the translator's text.   *)
(***************************************************************************)
FenceSql == <<BQ, BQ, BQ, "s", "q", "l">>
Fence == <<BQ, BQ, BQ>>
\* r'^sql' under re.IGNORECASE: the characters each of its letters matches
SqlTag == << {"s", "S", "U+017F"}, {"q", "Q"}, {"l", "L"} >>
StartsWithSqlTag(s) ==
    /\ Len(s) >= Len(SqlTag)
    /\ \A i \in 1..Len(SqlTag) : s[i] \in SqlTag[i]

CleanSql(content) ==
    LET s1 == Strip(content)
        s2 == RemoveAll(FenceSql, s1)
        s3 == RemoveAll(Fence, s2)
        s4 == IF StartsWithSqlTag(s3)
              THEN LStrip(SubSeq(s3, Len(SqlTag) + 1, Len(s3)))
              ELSE s3
        s5 == Strip(RStripChars(Strip(s4), {";"}))
    IN  JoinSplit(s5)

(***************************************************************************)
(* _check_sql_valid, lines 315 and 319: the two tests of the validator.    *)
(***************************************************************************)
KwSelect == <<"S", "E", "L", "E", "C", "T">>
KwFrom == <<"F", "R", "O", "M">>

\* the first test of the validator without upper(): exact case only
StartsWithSelectExact(sql) == StartsWith(sql, KwSelect)

StartsWithSelect(sql) == StartsWith(Upper(sql), KwSelect)
ContainsFrom(sql) == Contains(Upper(sql), KwFrom)
SqlValid(sql) == StartsWithSelect(sql) /\ ContainsFrom(sql)


(***************************************************************************)
(* Texts of the program.                                                   *)
(***************************************************************************)
ErrNoUserMessage == <<"N", "o", " ", "v", "a", "l", "i", "d", " ", "u", "s", "e", "r", " ", "m", "e", "s", "s", "a", "g", "e", " ", "f", "o", "u", "n", "d">>
ErrGenerationPrefix == <<"S", "Q", "L", " ", "g", "e", "n", "e", "r", "a", "t", "i", "o", "n", " ", "f", "a", "i", "l", "e", "d", ":", " ">>
ErrNoSql == <<"N", "o", " ", "S", "Q", "L", " ", "t", "o", " ", "e", "x", "e", "c", "u", "t", "e">>
ErrExecutionPrefix == <<"Q", "u", "e", "r", "y", " ", "e", "x", "e", "c", "u", "t", "i", "o", "n", " ", "f", "a", "i", "l", "e", "d", ":", " ">>
ErrNoResults == <<"N", "o", " ", "r", "e", "s", "u", "l", "t", "s", " ", "t", "o", " ", "f", "o", "r", "m", "a", "t">>
ErrNotSelect == <<"I", "n", "v", "a", "l", "i", "d", " ", "S", "Q", "L", ":", " ", "d", "o", "e", "s", "n", "'", "t", " ", "s", "t", "a", "r", "t", " ", "w", "i", "t", "h", " ", "S", "E", "L", "E", "C", "T">>
ErrNoFrom == <<"I", "n", "v", "a", "l", "i", "d", " ", "S", "Q", "L", ":", " ", "m", "i", "s", "s", "i", "n", "g", " ", "F", "R", "O", "M", " ", "c", "l", "a", "u", "s", "e">>
ErrorPrefix == <<"E", "r", "r", "o", "r", ":", " ">>
TxtNoResults == <<"I", " ", "f", "o", "u", "n", "d", " ", "n", "o", " ", "r", "e", "s", "u", "l", "t", "s", " ", "f", "o", "r", " ", "y", "o", "u", "r", " ", "q", "u", "e", "r", "y", ".">>
TxtAnswer == <<"T", "h", "e", " ", "a", "n", "s", "w", "e", "r", " ", "i", "s", ":", " ">>
TxtFound == <<"I", " ", "f", "o", "u", "n", "d", " ">>
TxtResults == <<" ", "r", "e", "s", "u", "l", "t", "s", " ", "f", "o", "r", " ", "y", "o", "u", "r", " ", "q", "u", "e", "r", "y", ".">>
NameNewConversation == <<"N", "e", "w", " ", "C", "o", "n", "v", "e", "r", "s", "a", "t", "i", "o", "n">>
NameNewChat == <<"N", "e", "w", " ", "C", "h", "a", "t">>

\* SQL NULL / Python None where a text is expected (no text equals it)
Null == <<"NULL">>

(***************************************************************************)
(* What the environment supplies: the caller's utterances, the texts and   *)
(* failures of the translator (self.llm.invoke), and the outcomes of the   *)
(* relational store (pd.read_sql).                                         *)
(***************************************************************************)
Utterances == { <<"T", "o", "p", " ", "5", " ", "s", "t", "a", "t", "e", "s", " ", "b", "y", " ", "s", "a", "l", "e", "s", "?">>, <<"h", "i", "?">> }

TranslatorTexts ==
    { <<BQ, BQ, BQ, "s", "q", "l", "\n", "S", "E", "L", "E", "C", "T", " ", "a", " ", " ", "F", "R", "O", "M", " ", "t", ";", "\n", BQ, BQ, BQ>>,
      <<"D", "E", "L", "E", "T", "E", " ", "F", "R", "O", "M", " ", "t">>,
      <<"S", "E", "L", "E", "C", "T", " ", "a">> }
TranslatorFailures == { <<"t", "i", "m", "e", "o", "u", "t">> }

\* a DataFrame: its number of rows and columns and the value at iloc[0, 0];
\* isNone marks Python's None
NoneFrame == [isNone |-> TRUE, rows |-> 0, cols |-> 0, value |-> 0]
Frame(r, c, v) == [isNone |-> FALSE, rows |-> r, cols |-> c, value |-> v]
EmptyFrame == Frame(0, 0, 0)
ResultTables == { Frame(0, 1, 0), Frame(1, 1, 42), Frame(3, 2, 7) }
ExecutionFailures == { <<"n", "o", " ", "s", "u", "c", "h", " ", "c", "o", "l", "u", "m", "n", ":", " ", "x">> }

HumanMessage(c) == [type |-> "human", content |-> c]
AIMessage(c) == [type |-> "ai", content |-> c]
SystemMessage(c) == [type |-> "system", content |-> c]

\* the in-memory histories a caller passes as existing_messages (<<>>: none)
ExistingChoices == { <<>>, <<HumanMessage(<<"h", "i", "?">>), AIMessage(TxtNoResults)>> }


(***************************************************************************)
(* State.                                                                  *)
(***************************************************************************)
VARIABLES
    chat_sessions,  \* committed rows of table chat_sessions, in rowid order
    chat_messages,  \* committed rows of table chat_messages, in rowid order
    seq,            \* last id AUTOINCREMENT gave to a chat_messages row
    writer,         \* the caller whose connection holds the write lock (0: none,
                    \* Unclosed, UnclosedPending: a connection a failed call
                    \* left open)
    clock,          \* CURRENT_TIMESTAMP of the history store
    faults,         \* store faults injected so far
    turns,          \* process_message calls started so far
    deletes,        \* delete_session calls started so far
    pc,             \* pc[p]: where caller p stands in its current operation
    arg,            \* arg[p]: arguments of p's current (or last) operation
    st,             \* st[p]: the ConversationState of p's turn (the graph's channels)
    branch,         \* branch[p]: the state dict as the last conditional-edge function left it
    visited,        \* visited[p]: the graph nodes p's turn ran, in order
    calls,          \* calls[p]: the translator and executor invocations of p's turn
    phase,          \* phase[p]: which save_message of the turn runs ("user", "assistant")
    existing,       \* existing[p]: save_message's local `existing` (the SELECT found a row)
    txn,            \* txn[p]: the open transaction of p's history connection
    log,            \* log[p]: the chat_messages rows p's turn committed, in order
    ret,            \* ret[p]: what p's last operation returned or raised
    history_db,     \* the history database file: whether it exists, the columns of chat_sessions
    migrations,     \* migrate_database runs started so far
    session_state,  \* st.session_state of the chat page: session_id, langgraph_messages
    prompt,         \* the prompt the chat page's script run is handling (Null: none)
    sessions,       \* the chat page's `sessions`: the list its last script run got (line 187)
    button          \* the session card's button the page's script run is handling

vars == <<chat_sessions, chat_messages, seq, writer, clock, faults, turns, deletes,
          pc, arg,
          st, branch, visited, calls, phase, existing, txn, log, ret,
          history_db, migrations, session_state, prompt, sessions, button>>

store == <<chat_sessions, chat_messages, seq>>
turnVars == <<st, branch, visited, calls>>
counters == <<turns, deletes>>
migVars == <<history_db, migrations>>
uiVars == <<session_state, prompt, sessions, button>>

\* the three tables' contents seen as one database value
Db(s, m, q) == [chat_sessions |-> s, chat_messages |-> m, seq |-> q]
Committed == Db(chat_sessions, chat_messages, seq)
NoTxn == [active |-> FALSE, db |-> Db(<<>>, <<>>, 0)]

\* the columns of chat_sessions before session names were introduced, and the
\* columns _init_history_db creates it with (lines 91-97)
LegacyColumns == {"session_id", "created_at", "last_activity"}
SessionColumns == LegacyColumns \cup {"session_name"}
\* the history database file as _init_history_db leaves a new one
CreatedDb == [exists |-> TRUE, columns |-> SessionColumns]

NoArg == [op |-> "none"]
NoRet == [kind |-> "none"]
\* ConversationState(...) as process_message builds it (lines 473-482)
InitialState(messages) ==
    [messages |-> messages, last_sql |-> <<>>, last_result |-> NoneFrame,
     query_count |-> 0, error |-> <<>>]
NoCalls == [llm |-> <<>>, exec |-> <<>>, prompt |-> <<>>]
\* st.session_state as the chat page initialises it (langgraph_app.py, lines
\* 76-81): a session id of its own, no messages
NewSessionState == [session_id |-> "s1", langgraph_messages |-> <<>>]
\* no button of a session card has been pressed
NoButton == [key |-> "none"]

Init ==
    /\ chat_sessions = <<>>
    /\ chat_messages = <<>>
    /\ seq = 0
    /\ writer = 0
    /\ clock = 0
    /\ faults = 0
    /\ turns = 0
    /\ deletes = 0
    /\ pc = [p \in Procs |-> "idle"]
    /\ arg = [p \in Procs |-> NoArg]
    /\ st = [p \in Procs |-> InitialState(<<>>)]
    /\ branch = [p \in Procs |-> InitialState(<<>>)]
    /\ visited = [p \in Procs |-> <<>>]
    /\ calls = [p \in Procs |-> NoCalls]
    /\ phase = [p \in Procs |-> "none"]
    /\ existing = [p \in Procs |-> FALSE]
    /\ txn = [p \in Procs |-> NoTxn]
    /\ log = [p \in Procs |-> <<>>]
    /\ ret = [p \in Procs |-> NoRet]
    /\ history_db = CreatedDb
    /\ migrations = 0
    /\ session_state = NewSessionState
    /\ prompt = Null
    /\ sessions = <<>>
    /\ button = NoButton

(***************************************************************************)
(* Sequence helpers.                                                       *)
(***************************************************************************)
RECURSIVE SelectSeqBy(_, _)
\* rows of `rows` with the given session id, order kept (WHERE session_id = ?)
SelectSeqBy(rows, sid) ==
    IF rows = <<>> THEN <<>>
    ELSE IF Head(rows).session_id = sid
         THEN <<Head(rows)>> \o SelectSeqBy(Tail(rows), sid)
         ELSE SelectSeqBy(Tail(rows), sid)

RECURSIVE RejectSeqBy(_, _)
\* rows of `rows` without the given session id, order kept
RejectSeqBy(rows, sid) ==
    IF rows = <<>> THEN <<>>
    ELSE IF Head(rows).session_id = sid
         THEN RejectSeqBy(Tail(rows), sid)
         ELSE <<Head(rows)>> \o RejectSeqBy(Tail(rows), sid)

\* s[:n]; a negative n counts from the end
Prefix(s, n) ==
    IF n < 0 THEN SubSeq(s, 1, Len(s) + n)
    ELSE IF Len(s) <= n THEN s ELSE SubSeq(s, 1, n)

\* seq[-n:]; -0 is 0, so seq[-0:] is the whole of seq, and for a negative n
\* the slice starts at index -n
LastN(s, n) ==
    IF n <= 0 THEN SubSeq(s, 1 - n, Len(s))
    ELSE IF Len(s) <= n THEN s ELSE SubSeq(s, Len(s) - n + 1, Len(s))

RECURSIVE InsertBeforeEqual(_, _)
\* r put into the sorted rows before the rows of its own timestamp
InsertBeforeEqual(sorted, r) ==
    IF sorted = <<>> THEN <<r>>
    ELSE IF Head(sorted).timestamp < r.timestamp
         THEN <<Head(sorted)>> \o InsertBeforeEqual(Tail(sorted), r)
         ELSE <<r>> \o sorted

RECURSIVE InsertByTimestamp(_, _)
\* r put into the timestamp-sorted rows after every row whose timestamp is not later
InsertByTimestamp(sorted, r) ==
    IF sorted = <<>> THEN <<r>>
    ELSE IF Head(sorted).timestamp <= r.timestamp
         THEN <<Head(sorted)>> \o InsertByTimestamp(Tail(sorted), r)
         ELSE <<r>> \o sorted

RECURSIVE SortByTimestampFrom(_, _)
SortByTimestampFrom(sorted, rows) ==
    IF rows = <<>> THEN sorted
    ELSE SortByTimestampFrom(InsertByTimestamp(sorted, Head(rows)), Tail(rows))

\* ORDER BY timestamp ASC as SQLite computes it: the table is scanned in rowid
\* order and sorted by the key alone, rows of equal key staying in scan order
OrderByTimestampAsc(rows) == SortByTimestampFrom(<<>>, rows)


(***************************************************************************)
(* The history store: statements of save_message, delete_session and       *)
(* load_session_history, as functions of a database value.                 *)
(***************************************************************************)
SessionNameLimit == 40
SessionNameMin == 10
RecentLimit == 10

\* _generate_session_name without the cut to SessionNameLimit characters
GenerateSessionNameWhole(first_message) ==
    LET name == RStripChars(Strip(first_message), {"?", ".", "!", ","})
    IN  IF Len(name) < SessionNameMin THEN NameNewConversation ELSE name

\* _generate_session_name
GenerateSessionName(first_message) ==
    LET name == RStripChars(Strip(SubSeq(first_message, 1,
                     IF Len(first_message) < SessionNameLimit
                     THEN Len(first_message) ELSE SessionNameLimit)),
                     {"?", ".", "!", ","})
    IN  IF Len(name) < SessionNameMin THEN NameNewConversation ELSE name

\* the SELECT of save_message looking for another session's row
SessionExistsOther(db, sid) ==
    \E i \in 1..Len(db.chat_sessions) : db.chat_sessions[i].session_id # sid

\* SELECT session_name FROM chat_sessions WHERE session_id = ? ; fetchone()
SessionExists(db, sid) ==
    \E i \in 1..Len(db.chat_sessions) : db.chat_sessions[i].session_id = sid

\* session_id TEXT PRIMARY KEY (line 93): a row with this key is in the table
PrimaryKeyTaken(db, sid) ==
    \E i \in 1..Len(db.chat_sessions) : db.chat_sessions[i].session_id = sid

\* INSERT INTO chat_sessions (session_id, session_name): the two timestamps
\* take their default, CURRENT_TIMESTAMP
InsertSession(db, sid, name, now) ==
    [db EXCEPT !.chat_sessions = Append(@,
        [session_id |-> sid, session_name |-> name,
         created_at |-> now, last_activity |-> now])]

\* the UPDATE of save_message without its WHERE clause
UpdateLastActivityOfAll(db, sid, now) ==
    [db EXCEPT !.chat_sessions =
        [i \in 1..Len(@) |-> [@[i] EXCEPT !.last_activity = now]]]

\* UPDATE chat_sessions SET last_activity = CURRENT_TIMESTAMP WHERE session_id = ?
UpdateLastActivity(db, sid, now) ==
    [db EXCEPT !.chat_sessions =
        [i \in 1..Len(@) |->
            IF @[i].session_id = sid THEN [@[i] EXCEPT !.last_activity = now]
            ELSE @[i]]]

\* INSERT INTO chat_messages (...): id from AUTOINCREMENT, timestamp by default
InsertMessage(db, sid, role, content, sql, result_count, success, now) ==
    [db EXCEPT
        !.seq = @ + 1,
        !.chat_messages = Append(@,
            [id |-> db.seq + 1, session_id |-> sid, role |-> role,
             content |-> content, sql_query |-> sql,
             result_count |-> result_count, success |-> success,
             timestamp |-> now])]

\* a DELETE on chat_messages without its WHERE clause
DeleteMessagesOfAll(db, sid) ==
    [db EXCEPT !.chat_messages = <<>>]

\* DELETE FROM chat_messages WHERE session_id = ?
DeleteMessages(db, sid) ==
    [db EXCEPT !.chat_messages = RejectSeqBy(@, sid)]

\* delete_session without its second DELETE
DeleteSessionRowSkipped(db, sid) == db

\* DELETE FROM chat_sessions WHERE session_id = ?
DeleteSessionRow(db, sid) ==
    [db EXCEPT !.chat_sessions = RejectSeqBy(@, sid)]

\* the columns load_session_history selects
HistoryRecord(row) ==
    [role |-> row.role, content |-> row.content, sql_query |-> row.sql_query,
     result_count |-> row.result_count, success |-> row.success,
     timestamp |-> row.timestamp]

\* the rows load_session_history's query yields, in the order it yields them
HistoryRows(db, sid) == OrderByTimestampAsc(SelectSeqBy(db.chat_messages, sid))

\* load_session_history
LoadSessionHistory(db, sid) ==
    LET rows == HistoryRows(db, sid)
    IN  [i \in 1..Len(rows) |-> HistoryRecord(rows[i])]

RECURSIVE ToMessages(_)
ToMessages(history) ==
    IF history = <<>> THEN <<>>
    ELSE (IF Head(history).role = "user"
            THEN <<HumanMessage(Head(history).content)>>
          ELSE IF Head(history).role = "assistant"
            THEN <<AIMessage(Head(history).content)>>
          ELSE <<>>) \o ToMessages(Tail(history))

\* get_recent_context_from_db taking the first messages of the history
GetOldestContextFromDb(db, sid, limit) ==
    ToMessages(Prefix(LoadSessionHistory(db, sid), limit))

\* get_recent_context_from_db
GetRecentContextFromDb(db, sid, limit) ==
    ToMessages(LastN(LoadSessionHistory(db, sid), limit))

RECURSIVE InsertByLastActivityAsc(_, _)
\* r put into rows sorted by last_activity ascending
InsertByLastActivityAsc(sorted, r) ==
    IF sorted = <<>> THEN <<r>>
    ELSE IF Head(sorted).last_activity <= r.last_activity
         THEN <<Head(sorted)>> \o InsertByLastActivityAsc(Tail(sorted), r)
         ELSE <<r>> \o sorted

RECURSIVE InsertByLastActivityDesc(_, _)
\* r put into the rows sorted by last_activity descending, after every row
\* whose last_activity is not earlier
InsertByLastActivityDesc(sorted, r) ==
    IF sorted = <<>> THEN <<r>>
    ELSE IF Head(sorted).last_activity >= r.last_activity
         THEN <<Head(sorted)>> \o InsertByLastActivityDesc(Tail(sorted), r)
         ELSE <<r>> \o sorted

RECURSIVE SortByLastActivityFrom(_, _)
SortByLastActivityFrom(sorted, rows) ==
    IF rows = <<>> THEN sorted
    ELSE SortByLastActivityFrom(InsertByLastActivityDesc(sorted, Head(rows)), Tail(rows))

\* ORDER BY last_activity DESC: the table scanned in rowid order and sorted by
\* the key, rows of equal key staying in scan order
OrderByLastActivityDesc(rows) == SortByLastActivityFrom(<<>>, rows)

\* (SELECT COUNT(*) FROM chat_messages WHERE session_id = s.session_id)
MessageCount(db, sid) == Len(SelectSeqBy(db.chat_messages, sid))

\* one record of get_all_sessions
SessionRecord(db, row) ==
    [session_id |-> row.session_id, session_name |-> row.session_name,
     created_at |-> row.created_at, last_activity |-> row.last_activity,
     message_count |-> MessageCount(db, row.session_id)]

\* get_all_sessions
GetAllSessions(db) ==
    LET rows == OrderByLastActivityDesc(db.chat_sessions)
    IN  [i \in 1..Len(rows) |-> SessionRecord(db, rows[i])]

\* a connection opened with isolation_level=None: every statement commits
AutocommitOn == TRUE

\* sqlite3.connect(self.history_db_path) leaves the connection in its default
\* mode: a transaction is opened before the first INSERT, UPDATE or DELETE
\* and nothing is written to the database before commit()
Autocommit == FALSE

(***************************************************************************)
(* The nodes and conditional edges of the graph, as functions of the       *)
(* state dict they are handed.                                             *)
(***************************************************************************)
\* _understand_query_node.  ("context" is no key of ConversationState, so
\* the graph keeps nothing of it.)
UnderstandQueryNode(s) ==
    IF s.messages = <<>> \/ s.messages[Len(s.messages)].type # "human"
    THEN [s EXCEPT !.error = ErrNoUserMessage]
    ELSE s

\* _should_generate_sql
ShouldGenerateSql(s) == IF s.error # <<>> THEN "error" ELSE "generate"

\* the messages before the newest that the context is built from (line 198),
\* and the characters of a message it shows (line 203)
ContextWindow == 7
ContentLimit == 150

\* the context built from the whole tail of the list, its newest message included
PriorWindowWithNewest(messages) ==
    SubSeq(messages,
           IF Len(messages) > ContextWindow THEN Len(messages) - ContextWindow ELSE 1,
           Len(messages))

\* messages[-8:-1]
PriorWindow(messages) ==
    SubSeq(messages,
           IF Len(messages) > ContextWindow + 1
           THEN Len(messages) - ContextWindow ELSE 1,
           Len(messages) - 1)

\* [msg for msg in ... if not isinstance(msg, SystemMessage)]
RECURSIVE NonSystem(_)
NonSystem(messages) ==
    IF messages = <<>> THEN <<>>
    ELSE (IF Head(messages).type = "system" THEN <<>> ELSE <<Head(messages)>>)
         \o NonSystem(Tail(messages))

\* one line of the context: "{role} #{i+1}: {content}..."
ContextLine(i, msg) ==
    [role |-> IF msg.type = "human" THEN "User" ELSE "Assistant",
     number |-> i,
     content |-> Prefix(msg.content, ContentLimit)]

\* context_text == ""
NoContext == [lines |-> <<>>, last_sql |-> <<>>]

\* context_text (lines 196-209) by its parts: the numbered lines of the recent
\* messages and the SQL of the "Last SQL Query" line (<<>>: the line is left out)
ContextText(messages, last_sql) ==
    LET recent_msgs == NonSystem(PriorWindow(messages)) IN
    IF Len(messages) > 1 /\ recent_msgs # <<>>
    THEN [lines |-> [i \in 1..Len(recent_msgs) |-> ContextLine(i, recent_msgs[i])],
          last_sql |-> last_sql]
    ELSE NoContext

\* what the prompt of _generate_sql_node is filled with besides the schema
PromptOf(s) ==
    [context |-> ContextText(s.messages, s.last_sql),
     user_query |-> s.messages[Len(s.messages)].content]

\* _generate_sql_node; llm is what self.llm.invoke did: it returned llm.text
\* (ok) or raised an exception whose str() is llm.text
GenerateSqlNode(s, llm) ==
    IF llm.ok THEN [s EXCEPT !.last_sql = CleanSql(llm.text)]
    ELSE [s EXCEPT !.error = ErrGenerationPrefix \o llm.text]

\* _check_sql_valid without its test for SELECT
CheckSqlValidFromOnly(s) ==
    IF s.error # <<>> THEN [route |-> "invalid", state |-> s]
    ELSE IF ~ContainsFrom(s.last_sql)
      THEN [route |-> "invalid", state |-> [s EXCEPT !.error = ErrNoFrom]]
    ELSE [route |-> "valid", state |-> s]

\* _check_sql_valid: the route it returns and the dict as it leaves it
CheckSqlValid(s) ==
    IF s.error # <<>> THEN [route |-> "invalid", state |-> s]
    ELSE IF ~StartsWithSelect(s.last_sql)
      THEN [route |-> "invalid", state |-> [s EXCEPT !.error = ErrNotSelect]]
    ELSE IF ~ContainsFrom(s.last_sql)
      THEN [route |-> "invalid", state |-> [s EXCEPT !.error = ErrNoFrom]]
    ELSE [route |-> "valid", state |-> s]

\* _execute_query_node counting the query before it is run
ExecuteQueryNodeCounting(s, out) ==
    IF s.last_sql = <<>> THEN [s EXCEPT !.error = ErrNoSql]
    ELSE IF out.ok
      THEN [s EXCEPT !.last_result = out.frame, !.query_count = @ + 1]
    ELSE [s EXCEPT !.error = ErrExecutionPrefix \o out.text, !.query_count = @ + 1]

\* _execute_query_node; out is what pd.read_sql did: it returned out.frame
\* (ok) or raised an exception whose str() is out.text
ExecuteQueryNode(s, out) ==
    IF s.last_sql = <<>> THEN [s EXCEPT !.error = ErrNoSql]
    ELSE IF out.ok
      THEN [s EXCEPT !.last_result = out.frame, !.query_count = @ + 1]
    ELSE [s EXCEPT !.error = ErrExecutionPrefix \o out.text]

\* _check_execution
CheckExecution(s) == IF s.error # <<>> THEN "error" ELSE "success"

\* the formatter's text with the single value shown for every one-row table
ResponseTextOneRow(df) ==
    IF df.rows = 0 THEN TxtNoResults
    ELSE IF df.rows = 1 THEN TxtAnswer \o IntToStr(df.value)
    ELSE TxtFound \o IntToStr(df.rows) \o TxtResults

\* the text _format_response_node builds for a DataFrame
ResponseText(df) ==
    IF df.rows = 0 THEN TxtNoResults
    ELSE IF df.rows = 1 /\ df.cols = 1 THEN TxtAnswer \o IntToStr(df.value)
    ELSE TxtFound \o IntToStr(df.rows) \o TxtResults

\* _format_response_node
FormatResponseNode(s) ==
    IF s.last_result.isNone THEN [s EXCEPT !.error = ErrNoResults]
    ELSE [s EXCEPT !.messages = Append(@, AIMessage(ResponseText(s.last_result)))]

\* _handle_error_node ("error" is always a key of the state, so the default
\* of state.get is never taken)
HandleErrorNode(s) ==
    [s EXCEPT !.messages = Append(@, AIMessage(ErrorPrefix \o s.error))]

\* What the graph's channels hold after a node and its conditional edge ran.
\* add_conditional_edges runs the edge function on a dict of its own, read
\* from the channels after the node's writes; only the route it returns is
\* used, and what it assigns to that dict is written to no channel.
ChannelsAfterEdge(nodeState, edgeState) == nodeState


(***************************************************************************)
(* The edges of the graph (_build_graph): the node that follows each node. *)
(***************************************************************************)
EntryPoint == "understand_query"
AfterUnderstandQuery(route) ==
    IF route = "generate" THEN "generate_sql" ELSE "handle_error"
AfterGenerateSql(route) ==
    IF route = "valid" THEN "execute_query" ELSE "handle_error"
\* a failed execution sent back to the translator
AfterExecuteQueryRetry(route) ==
    IF route = "success" THEN "format_response" ELSE "generate_sql"
AfterExecuteQuery(route) ==
    IF route = "success" THEN "format_response" ELSE "handle_error"
AfterFormatResponse == "END"
AfterHandleError == "END"

Nodes == {"understand_query", "generate_sql", "execute_query",
          "format_response", "handle_error"}

(***************************************************************************)
(* process_message: building the working message list, then the graph.     *)
(***************************************************************************)
LlmOutcomes ==
    { [ok |-> TRUE, text |-> x] : x \in TranslatorTexts } \cup
    { [ok |-> FALSE, text |-> x] : x \in TranslatorFailures }
ExecOutcomes ==
    { [ok |-> TRUE, frame |-> f, text |-> <<>>] : f \in ResultTables } \cup
    { [ok |-> FALSE, frame |-> NoneFrame, text |-> x] : x \in ExecutionFailures }

\* lines 464-482: the working message list and the initial state
WorkingMessages(db, sid, user_message, existing_messages) ==
    (IF existing_messages # <<>> THEN existing_messages
     ELSE GetRecentContextFromDb(db, sid, RecentLimit))
    \o <<HumanMessage(user_message)>>

\* line 466 without its copy(): the working list is the caller's list
CallersListShared(existing_messages, messages) ==
    IF existing_messages # <<>> THEN messages ELSE existing_messages

\* The list object the caller passed as existing_messages, when the working
\* list of the turn holds `messages`.  Line 466 makes the working list a copy
\* of it (and line 469 a list of its own), so what lines 471, 290 and 297
\* append to the working list does not reach the caller's list.
CallersList(existing_messages, messages) == existing_messages

\* The write lock in the hands of a connection that no call uses any more.
\* save_message and delete_session close their connection on the path
\* without exception only (lines 391, 454); a connection left open keeps its
\* transaction and its lock until Python's collector frees the object.
\* Unclosed: the connection was left inside its transaction (SQLite's
\* RESERVED lock): other connections read, and wait to write.
Unclosed == -1
\* UnclosedPending: the connection was left in a commit that timed out
\* (SQLite's PENDING lock): other connections can neither read nor write.
UnclosedPending == -2

\* the file can be read by a new connection
Readable == writer # UnclosedPending

\* an exception leaving a call: its type and the step that raised it
Raised(e, at) == [kind |-> "raised", error |-> e, at |-> at]

\* line 469 reads the history store: with no existing_messages given and
\* the file locked against readers, pd.read_sql (line 404) raises
\* DatabaseError
LoadFails(existing_messages) == existing_messages = <<>> /\ ~Readable

\* lines 460-482: the call of process_message up to the start of the graph.
\* A load that fails ends the call: process_message has no handler.
StartTurn(p, utterances, histories) ==
    /\ pc[p] = "idle"
    /\ turns < MaxTurns
    /\ \E sid \in SessionIds, u \in utterances, ex \in histories :
         IF LoadFails(ex)
         THEN /\ arg' = [arg EXCEPT ![p] =
                     [op |-> "process_message", session_id |-> sid,
                      user_message |-> u, existing_messages |-> ex]]
              /\ st' = [st EXCEPT ![p] = InitialState(<<>>)]
              /\ branch' = [branch EXCEPT ![p] = InitialState(<<>>)]
              /\ ret' = [ret EXCEPT ![p] = Raised("DatabaseError", pc[p])]
              /\ UNCHANGED pc
         ELSE /\ arg' = [arg EXCEPT ![p] =
                     [op |-> "process_message", session_id |-> sid,
                      user_message |-> u,
                      existing_messages |->
                          CallersList(ex, WorkingMessages(Committed, sid, u, ex))]]
              /\ st' = [st EXCEPT ![p] =
                     InitialState(WorkingMessages(Committed, sid, u, ex))]
              /\ branch' = [branch EXCEPT ![p] =
                     InitialState(WorkingMessages(Committed, sid, u, ex))]
              /\ ret' = [ret EXCEPT ![p] = NoRet]
              /\ pc' = [pc EXCEPT ![p] = EntryPoint]
    /\ turns' = turns + 1
    /\ UNCHANGED deletes
    /\ visited' = [visited EXCEPT ![p] = <<>>]
    /\ calls' = [calls EXCEPT ![p] = NoCalls]
    /\ log' = [log EXCEPT ![p] = <<>>]
    /\ phase' = [phase EXCEPT ![p] = "none"]
    /\ UNCHANGED <<store, writer, clock, faults, existing, txn>>
    /\ UNCHANGED <<migVars, uiVars>>

\* node understand_query and its conditional edge (lines 134-141)
UnderstandQuery(p) ==
    /\ pc[p] = "understand_query"
    /\ LET s1 == UnderstandQueryNode(st[p])
           route == ShouldGenerateSql(s1)
       IN  /\ st' = [st EXCEPT ![p] = ChannelsAfterEdge(s1, s1)]
           /\ branch' = [branch EXCEPT ![p] = s1]
           /\ pc' = [pc EXCEPT ![p] = AfterUnderstandQuery(route)]
    /\ visited' = [visited EXCEPT ![p] = Append(@, "understand_query")]
    /\ UNCHANGED <<store, writer, clock, faults, counters, arg, calls, phase,
                   existing, txn, log, ret>>
    /\ UNCHANGED <<migVars, uiVars>>

\* node generate_sql and its conditional edge (lines 143-150)
GenerateSql(p, llms) ==
    /\ pc[p] = "generate_sql"
    /\ \E llm \in llms :
         LET s1 == GenerateSqlNode(st[p], llm)
             edge == CheckSqlValid(s1)
         IN  /\ st' = [st EXCEPT ![p] = ChannelsAfterEdge(s1, edge.state)]
             /\ branch' = [branch EXCEPT ![p] = edge.state]
             /\ calls' = [calls EXCEPT ![p].llm = Append(@, llm),
                                       ![p].prompt = Append(@, PromptOf(st[p]))]
             /\ pc' = [pc EXCEPT ![p] = AfterGenerateSql(edge.route)]
    /\ visited' = [visited EXCEPT ![p] = Append(@, "generate_sql")]
    /\ UNCHANGED <<store, writer, clock, faults, counters, arg, phase, existing,
                   txn, log, ret>>
    /\ UNCHANGED <<migVars, uiVars>>

\* node execute_query and its conditional edge (lines 152-159)
ExecuteQuery(p, outs) ==
    /\ pc[p] = "execute_query"
    /\ \E out \in outs :
         LET s1 == ExecuteQueryNode(st[p], out)
             route == CheckExecution(s1)
         IN  /\ st' = [st EXCEPT ![p] = ChannelsAfterEdge(s1, s1)]
             /\ branch' = [branch EXCEPT ![p] = s1]
             /\ calls' = [calls EXCEPT ![p].exec =
                    IF st[p].last_sql = <<>> THEN @
                    ELSE Append(@, [sql |-> st[p].last_sql, out |-> out])]
             /\ pc' = [pc EXCEPT ![p] = AfterExecuteQuery(route)]
    /\ visited' = [visited EXCEPT ![p] = Append(@, "execute_query")]
    /\ UNCHANGED <<store, writer, clock, faults, counters, arg, phase, existing,
                   txn, log, ret>>
    /\ UNCHANGED <<migVars, uiVars>>

\* node format_response and its edge to END (line 161)
FormatResponse(p) ==
    /\ pc[p] = "format_response"
    /\ st' = [st EXCEPT ![p] = FormatResponseNode(st[p])]
    /\ arg' = [arg EXCEPT ![p].existing_messages =
                  CallersList(@, FormatResponseNode(st[p]).messages)]
    /\ pc' = [pc EXCEPT ![p] = AfterFormatResponse]
    /\ visited' = [visited EXCEPT ![p] = Append(@, "format_response")]
    /\ UNCHANGED <<store, writer, clock, faults, counters, branch, calls,
                   phase, existing, txn, log, ret>>
    /\ UNCHANGED <<migVars, uiVars>>

\* node handle_error and its edge to END (line 162)
HandleError(p) ==
    /\ pc[p] = "handle_error"
    /\ st' = [st EXCEPT ![p] = HandleErrorNode(st[p])]
    /\ arg' = [arg EXCEPT ![p].existing_messages =
                  CallersList(@, HandleErrorNode(st[p]).messages)]
    /\ pc' = [pc EXCEPT ![p] = AfterHandleError]
    /\ visited' = [visited EXCEPT ![p] = Append(@, "handle_error")]
    /\ UNCHANGED <<store, writer, clock, faults, counters, branch, calls,
                   phase, existing, txn, log, ret>>
    /\ UNCHANGED <<migVars, uiVars>>


(***************************************************************************)
(* process_message after the graph: the two save_message calls and the     *)
(* QueryResult (lines 487-529).                                            *)
(***************************************************************************)
\* line 488
TurnSuccess(s) == s.error = <<>>

\* the arguments of the first save_message call (lines 494-499)
UserSaveArgs(user_message) ==
    [role |-> "user", content |-> user_message, sql |-> Null,
     result_count |-> 0, success |-> TRUE]

\* the arguments of the second save_message call (lines 501-519)
AssistantSaveArgs(s) ==
    IF TurnSuccess(s) /\ ~s.last_result.isNone
    THEN [role |-> "assistant",
          content |-> s.messages[Len(s.messages)].content,
          sql |-> s.last_sql, result_count |-> s.last_result.rows,
          success |-> TRUE]
    ELSE [role |-> "assistant", content |-> s.error, sql |-> s.last_sql,
          result_count |-> 0, success |-> FALSE]

SaveArgs(p) ==
    IF phase[p] = "user" THEN UserSaveArgs(arg[p].user_message)
    ELSE AssistantSaveArgs(st[p])

\* the QueryResult without the executed table
QueryResultWithoutData(user_message, s) ==
    [kind |-> "QueryResult", question |-> user_message, sql |-> s.last_sql,
     data |-> EmptyFrame,
     success |-> TurnSuccess(s),
     error |-> IF ~TurnSuccess(s) THEN s.error ELSE Null]

\* lines 522-529
QueryResultOf(user_message, s) ==
    [kind |-> "QueryResult", question |-> user_message, sql |-> s.last_sql,
     data |-> IF s.last_result.isNone THEN EmptyFrame ELSE s.last_result,
     success |-> TurnSuccess(s),
     error |-> IF ~TurnSuccess(s) THEN s.error ELSE Null]

\* the database value p's connection works on: its open transaction's, or
\* the committed one
View(p) == IF txn[p].active THEN txn[p].db ELSE Committed

\* p's connection executes an INSERT, UPDATE or DELETE that turns View(p)
\* into db.  It needs the write lock; while another connection holds it the
\* statement waits.
Write(p, db) ==
    /\ writer \in {0, p}
    /\ IF Autocommit
       THEN /\ chat_sessions' = db.chat_sessions
            /\ chat_messages' = db.chat_messages
            /\ seq' = db.seq
            /\ UNCHANGED <<txn, writer>>
       ELSE /\ txn' = [txn EXCEPT ![p] = [active |-> TRUE, db |-> db]]
            /\ writer' = p
            /\ UNCHANGED store

\* history_conn.commit()
Commit(p) ==
    /\ IF txn[p].active
       THEN /\ chat_sessions' = txn[p].db.chat_sessions
            /\ chat_messages' = txn[p].db.chat_messages
            /\ seq' = txn[p].db.seq
       ELSE UNCHANGED store
    /\ txn' = [txn EXCEPT ![p] = NoTxn]
    /\ writer' = IF writer = p THEN 0 ELSE writer

\* the transaction is rolled back and the connection closed: nothing of it is
\* kept and the write lock is free
Rollback(p) ==
    /\ txn' = [txn EXCEPT ![p] = NoTxn]
    /\ writer' = IF writer = p THEN 0 ELSE writer
    /\ UNCHANGED store

\* A call of p ends with an exception and its connection open.  left: the
\* lock the connection keeps, 0 for none (a statement that fails for a full
\* disk or an I/O error has its transaction rolled back by SQLite).
Leave(p, left) ==
    /\ txn' = [txn EXCEPT ![p] = NoTxn]
    /\ writer' = IF left # 0 THEN left ELSE IF writer = p THEN 0 ELSE writer
    /\ UNCHANGED store

\* The lock p's connection keeps when a fault of the store makes one of its
\* steps fail.  commit() of an open transaction either fails for the disk
\* (the transaction is rolled back, no lock stays) or times out waiting for
\* the readers of the file to finish, and then keeps its PENDING lock; every
\* other step that fails leaves no lock.
FaultLocks(p) ==
    IF writer = p /\ pc[p] \in {"sv_commit", "del_commit"}
    THEN {UnclosedPending, 0} ELSE {0}

\* the two save_message calls of process_message in the other order
SavePhaseSwapped(at) == IF at = "END" THEN "assistant" ELSE "user"

\* which save_message call of process_message comes at this point: the user
\* turn's right after the graph (line 494), the assistant turn's after it
SavePhase(at) == IF at = "END" THEN "user" ELSE "assistant"

SaveSteps == {"sv_insert_session", "sv_update", "sv_insert_message", "sv_commit"}

\* save_message, lines 361-366: connect, SELECT, fetchone
SvSelect(p) ==
    /\ pc[p] \in {"END", "saved_user"}
    /\ Readable
    /\ phase' = [phase EXCEPT ![p] = SavePhase(pc[p])]
    /\ existing' = [existing EXCEPT ![p] = SessionExists(Committed, arg[p].session_id)]
    /\ pc' = [pc EXCEPT ![p] =
           IF SessionExists(Committed, arg[p].session_id)
           THEN "sv_update" ELSE "sv_insert_session"]
    /\ UNCHANGED <<store, writer, clock, faults, counters, arg, turnVars, txn, log, ret>>
    /\ UNCHANGED <<migVars, uiVars>>

\* save_message, lines 368-374: the session row of a new session.  session_id
\* is the PRIMARY KEY: inserting a second row for it raises IntegrityError,
\* which save_message and process_message let through.  The INSERT has taken
\* the write lock when it fails, and the connection stays open.
SvInsertSession(p) ==
    /\ pc[p] = "sv_insert_session"
    /\ writer \in {0, p}
    /\ IF PrimaryKeyTaken(View(p), arg[p].session_id)
       THEN /\ Leave(p, Unclosed)
            /\ pc' = [pc EXCEPT ![p] = "idle"]
            /\ ret' = [ret EXCEPT ![p] = Raised("IntegrityError", pc[p])]
       ELSE /\ Write(p, InsertSession(View(p), arg[p].session_id,
                     IF SaveArgs(p).role = "user"
                     THEN GenerateSessionName(SaveArgs(p).content)
                     ELSE NameNewChat, clock))
            /\ pc' = [pc EXCEPT ![p] = "sv_update"]
            /\ UNCHANGED ret
    /\ UNCHANGED <<clock, faults, counters, arg, turnVars, phase, existing, log>>
    /\ UNCHANGED <<migVars, uiVars>>

\* save_message, lines 376-381
SvUpdate(p) ==
    /\ pc[p] = "sv_update"
    /\ Write(p, UpdateLastActivity(View(p), arg[p].session_id, clock))
    /\ pc' = [pc EXCEPT ![p] = "sv_insert_message"]
    /\ UNCHANGED <<clock, faults, counters, arg, turnVars, phase, existing, log, ret>>
    /\ UNCHANGED <<migVars, uiVars>>

\* save_message, lines 383-388
SvInsertMessage(p) ==
    /\ pc[p] = "sv_insert_message"
    /\ Write(p, InsertMessage(View(p), arg[p].session_id, SaveArgs(p).role,
                  SaveArgs(p).content, SaveArgs(p).sql,
                  SaveArgs(p).result_count, SaveArgs(p).success, clock))
    /\ pc' = [pc EXCEPT ![p] = "sv_commit"]
    /\ UNCHANGED <<clock, faults, counters, arg, turnVars, phase, existing, log, ret>>
    /\ UNCHANGED <<migVars, uiVars>>

\* save_message, lines 390-391: commit, close, return
SvCommit(p) ==
    /\ pc[p] = "sv_commit"
    /\ Commit(p)
    /\ log' = [log EXCEPT ![p] =
           Append(@, View(p).chat_messages[Len(View(p).chat_messages)])]
    /\ pc' = [pc EXCEPT ![p] =
           IF phase[p] = "user" THEN "saved_user" ELSE "saved_assistant"]
    /\ UNCHANGED <<clock, faults, counters, arg, turnVars, phase, existing, ret>>
    /\ UNCHANGED <<migVars, uiVars>>

\* A statement of save_message (or its connect or commit) fails: the disk is
\* full, the file is unreadable, the wait for the write lock times out.
\* save_message has no handler and process_message has none: the exception
\* reaches the caller of process_message, and the connection stays open.
SvFault(p) ==
    /\ pc[p] \in {"END", "saved_user"} \cup SaveSteps
    /\ faults < MaxFaults
    /\ faults' = faults + 1
    /\ \E left \in FaultLocks(p) : Leave(p, left)
    /\ pc' = [pc EXCEPT ![p] = "idle"]
    /\ ret' = [ret EXCEPT ![p] = Raised("OperationalError", pc[p])]
    /\ UNCHANGED <<clock, counters, arg, turnVars, phase, existing, log>>
    /\ UNCHANGED <<migVars, uiVars>>

\* The SELECT of save_message (line 365) finds the file locked against
\* readers, or its first INSERT or UPDATE (lines 371, 377) finds the write
\* lock with an unclosed connection, and gives up after the timeout of
\* sqlite3.connect (5 seconds): OperationalError, database is locked.
SvLocked(p) ==
    /\ \/ pc[p] \in {"END", "saved_user"} /\ ~Readable
       \/ /\ pc[p] \in {"sv_insert_session", "sv_update"}
          /\ ~txn[p].active
          /\ writer \in {Unclosed, UnclosedPending}
    /\ pc' = [pc EXCEPT ![p] = "idle"]
    /\ ret' = [ret EXCEPT ![p] = Raised("OperationalError", pc[p])]
    /\ UNCHANGED <<store, writer, txn, clock, faults, counters, arg, turnVars,
                   phase, existing, log>>
    /\ UNCHANGED <<migVars, uiVars>>

\* Python's collector frees the unclosed connections: their transactions are
\* rolled back and the write lock is free
Collect ==
    /\ writer \in {Unclosed, UnclosedPending}
    /\ writer' = 0
    /\ UNCHANGED <<store, txn, clock, faults, counters, pc, arg, turnVars, phase,
                   existing, log, ret>>
    /\ UNCHANGED <<migVars, uiVars>>

\* process_message returns (lines 522-529)
Return(p) ==
    /\ pc[p] = "saved_assistant"
    /\ ret' = [ret EXCEPT ![p] = QueryResultOf(arg[p].user_message, st[p])]
    /\ pc' = [pc EXCEPT ![p] = "idle"]
    /\ UNCHANGED <<store, writer, clock, faults, counters, arg, turnVars, phase,
                   existing, txn, log>>
    /\ UNCHANGED <<migVars, uiVars>>

(***************************************************************************)
(* delete_session (lines 441-458).                                         *)
(***************************************************************************)
DeleteSteps == {"del_messages", "del_session", "del_commit"}
Deleted(sid, value) == [kind |-> "deleted", session_id |-> sid, value |-> value]

\* the call delete_session(sid)
StartDeleteOf(p, sid) ==
    /\ pc[p] = "idle"
    /\ arg' = [arg EXCEPT ![p] = [op |-> "delete_session", session_id |-> sid]]
    /\ pc' = [pc EXCEPT ![p] = "del_messages"]
    /\ ret' = [ret EXCEPT ![p] = NoRet]
    /\ st' = [st EXCEPT ![p] = InitialState(<<>>)]
    /\ branch' = [branch EXCEPT ![p] = InitialState(<<>>)]
    /\ visited' = [visited EXCEPT ![p] = <<>>]
    /\ calls' = [calls EXCEPT ![p] = NoCalls]
    /\ log' = [log EXCEPT ![p] = <<>>]
    /\ phase' = [phase EXCEPT ![p] = "none"]
    /\ deletes < MaxDeletes
    /\ deletes' = deletes + 1
    /\ UNCHANGED <<store, writer, clock, faults, turns, existing, txn>>
    /\ UNCHANGED <<migVars, uiVars>>

\* a caller deletes a session of its choice
StartDelete(p) ==
    /\ deletes < MaxDeletes
    /\ \E sid \in SessionIds : StartDeleteOf(p, sid)

\* line 448
DelMessages(p) ==
    /\ pc[p] = "del_messages"
    /\ Write(p, DeleteMessages(View(p), arg[p].session_id))
    /\ pc' = [pc EXCEPT ![p] = "del_session"]
    /\ UNCHANGED <<clock, faults, counters, arg, turnVars, phase, existing, log, ret>>
    /\ UNCHANGED <<migVars, uiVars>>

\* line 451
DelSession(p) ==
    /\ pc[p] = "del_session"
    /\ Write(p, DeleteSessionRow(View(p), arg[p].session_id))
    /\ pc' = [pc EXCEPT ![p] = "del_commit"]
    /\ UNCHANGED <<clock, faults, counters, arg, turnVars, phase, existing, log, ret>>
    /\ UNCHANGED <<migVars, uiVars>>

\* lines 453-455
DelCommit(p) ==
    /\ pc[p] = "del_commit"
    /\ Commit(p)
    /\ pc' = [pc EXCEPT ![p] = "idle"]
    /\ ret' = [ret EXCEPT ![p] = Deleted(arg[p].session_id, TRUE)]
    /\ UNCHANGED <<clock, faults, counters, arg, turnVars, phase, existing, log>>
    /\ UNCHANGED <<migVars, uiVars>>

\* lines 456-458: a failing statement is caught and reported as False; the
\* handler does not close the connection
DelFault(p) ==
    /\ pc[p] \in DeleteSteps
    /\ faults < MaxFaults
    /\ faults' = faults + 1
    /\ \E left \in FaultLocks(p) : Leave(p, left)
    /\ pc' = [pc EXCEPT ![p] = "idle"]
    /\ ret' = [ret EXCEPT ![p] = Deleted(arg[p].session_id, FALSE)]
    /\ UNCHANGED <<clock, counters, arg, turnVars, phase, existing, log>>
    /\ UNCHANGED <<migVars, uiVars>>

\* line 448: the first DELETE finds the write lock with an unclosed
\* connection and gives up after the timeout; lines 456-458 report False
DelLocked(p) ==
    /\ pc[p] = "del_messages"
    /\ writer \in {Unclosed, UnclosedPending}
    /\ pc' = [pc EXCEPT ![p] = "idle"]
    /\ ret' = [ret EXCEPT ![p] = Deleted(arg[p].session_id, FALSE)]
    /\ UNCHANGED <<store, writer, txn, clock, faults, counters, arg, turnVars,
                   phase, existing, log>>
    /\ UNCHANGED <<migVars, uiVars>>

(***************************************************************************)
(* get_all_sessions (lines 425-439): one SELECT on a connection of its own. *)
(* With the file locked against readers pd.read_sql gives up after the     *)
(* timeout and raises DatabaseError, which the method lets through.        *)
(***************************************************************************)
Sessions(value) == [kind |-> "sessions", value |-> value]

ListSessions(p) ==
    /\ pc[p] = "idle"
    /\ arg' = [arg EXCEPT ![p] = [op |-> "get_all_sessions"]]
    /\ ret' = [ret EXCEPT ![p] =
           IF Readable THEN Sessions(GetAllSessions(Committed))
           ELSE Raised("DatabaseError", pc[p])]
    /\ UNCHANGED <<store, writer, clock, faults, counters, pc, turnVars,
                   phase, existing, txn, log>>
    /\ UNCHANGED <<migVars, uiVars>>

\* a second passes on the history store's clock
Tick ==
    /\ clock < MaxClock
    /\ clock' = clock + 1
    /\ UNCHANGED <<store, writer, faults, counters, pc, arg, turnVars, phase,
                   existing, txn, log, ret>>
    /\ UNCHANGED <<migVars, uiVars>>

(***************************************************************************)
(* The agent used by one caller at a time: turns, deletions and listings   *)
(* follow each other, with every utterance, history, translator outcome    *)
(* and store outcome of the environment.  The graph runs synchronously: a  *)
(* node that can run does run (the translator and the store answer).       *)
(***************************************************************************)
Caller == 1

GraphStep(p, llms, outs) ==
    \/ UnderstandQuery(p)
    \/ GenerateSql(p, llms)
    \/ ExecuteQuery(p, outs)
    \/ FormatResponse(p)
    \/ HandleError(p)

TurnNext ==
    \/ StartTurn(Caller, Utterances, ExistingChoices)
    \/ GraphStep(Caller, LlmOutcomes, ExecOutcomes)
    \/ SvSelect(Caller)
    \/ SvInsertSession(Caller)
    \/ SvUpdate(Caller)
    \/ SvInsertMessage(Caller)
    \/ SvCommit(Caller)
    \/ SvFault(Caller)
    \/ Return(Caller)
    \/ StartDelete(Caller)
    \/ DelMessages(Caller)
    \/ DelSession(Caller)
    \/ DelCommit(Caller)
    \/ DelFault(Caller)
    \/ SvLocked(Caller)
    \/ DelLocked(Caller)
    \/ ListSessions(Caller)
    \/ Collect
    \/ Tick

TurnSpec ==
    Init /\ [][TurnNext]_vars
         /\ WF_vars(GraphStep(Caller, LlmOutcomes, ExecOutcomes))

(***************************************************************************)
(* The agent used by several callers at once: their operations interleave  *)
(* statement by statement on the history store.  The environment's choices *)
(* are a part of those above, one of each kind.                            *)
(***************************************************************************)
SharedUtterances == { <<"T", "o", "p", " ", "5", " ", "s", "t", "a", "t", "e", "s", " ", "b", "y", " ", "s", "a", "l", "e", "s", "?">> }
SharedHistories == { <<>> }
SharedLlmOutcomes ==
    { [ok |-> TRUE, text |-> <<BQ, BQ, BQ, "s", "q", "l", "\n", "S", "E", "L", "E", "C", "T", " ", "a", " ", " ", "F", "R", "O", "M", " ", "t", ";", "\n", BQ, BQ, BQ>>],
      [ok |-> FALSE, text |-> <<"t", "i", "m", "e", "o", "u", "t">>] }
SharedExecOutcomes ==
    { [ok |-> TRUE, frame |-> Frame(1, 1, 42), text |-> <<>>],
      [ok |-> FALSE, frame |-> NoneFrame, text |-> <<"n", "o", " ", "s", "u", "c", "h", " ", "c", "o", "l", "u", "m", "n", ":", " ", "x">>] }

Next ==
    \/ \E p \in Procs :
         \/ StartTurn(p, SharedUtterances, SharedHistories)
         \/ GraphStep(p, SharedLlmOutcomes, SharedExecOutcomes)
         \/ SvSelect(p)
         \/ SvInsertSession(p)
         \/ SvUpdate(p)
         \/ SvInsertMessage(p)
         \/ SvCommit(p)
         \/ SvFault(p)
         \/ Return(p)
         \/ StartDelete(p)
         \/ DelMessages(p)
         \/ DelSession(p)
         \/ DelCommit(p)
         \/ DelFault(p)
         \/ SvLocked(p)
         \/ DelLocked(p)
    \/ Collect
    \/ Tick

Spec == Init /\ [][Next]_vars

(***************************************************************************)
(* The callers also list the sessions between their operations.  The       *)
(* translator may fail, the database and the history store answer; turns,  *)
(* deletions and lists interleave statement by statement.                  *)
(***************************************************************************)
ListLlmOutcomes == SharedLlmOutcomes
ListExecOutcomes == { x \in SharedExecOutcomes : x.ok }

ListNext ==
    \/ \E p \in Procs :
         \/ StartTurn(p, SharedUtterances, SharedHistories)
         \/ GraphStep(p, ListLlmOutcomes, ListExecOutcomes)
         \/ SvSelect(p)
         \/ SvInsertSession(p)
         \/ SvUpdate(p)
         \/ SvInsertMessage(p)
         \/ SvCommit(p)
         \/ Return(p)
         \/ StartDelete(p)
         \/ DelMessages(p)
         \/ DelSession(p)
         \/ DelCommit(p)
         \/ ListSessions(p)
         \/ SvLocked(p)
         \/ DelLocked(p)
    \/ Collect
    \/ Tick

ListSpec == Init /\ [][ListNext]_vars

(***************************************************************************)
(* The graph alone, on the working message lists, translator texts and     *)
(* result tables of a wider range: one turn is started and runs to END.    *)
(***************************************************************************)
GraphUtterances == { <<"T", "o", "p", " ", "5", " ", "s", "t", "a", "t", "e", "s", " ", "b", "y", " ", "s", "a", "l", "e", "s", "?">>, <<>> }

\* an in-memory history of n messages, user and assistant alternating, each
\* with a content of its own
Numbered(n) ==
    [i \in 1..n |-> IF i % 2 = 1 THEN HumanMessage(<<"q">> \o IntToStr(i))
                    ELSE AIMessage(<<"a">> \o IntToStr(i))]

LongText == [i \in 1..(ContentLimit + 1) |-> "x"]

GraphHistories ==
    { Numbered(n) : n \in {0, 1, 2, 6, 7, 8, 10} } \cup
    { <<SystemMessage(<<"b", "e", " ", "b", "r", "i", "e", "f">>)>>,
      <<SystemMessage(<<"b", "e", " ", "b", "r", "i", "e", "f">>)>> \o Numbered(2),
      Numbered(4) \o <<SystemMessage(<<"b", "e", " ", "b", "r", "i", "e", "f">>)>> \o Numbered(5),
      <<HumanMessage(LongText), AIMessage(TxtNoResults)>>,
      <<HumanMessage(<<"T", "o", "p", " ", "5", " ", "s", "t", "a", "t", "e", "s", " ", "b", "y", " ", "s", "a", "l", "e", "s", "?">>), AIMessage(TxtNoResults)>> }

GraphTranslatorTexts ==
    TranslatorTexts \cup
    { <<"S", "E", "L", "E", "C", "T", " ", "a", " ", "F", "R", "O", "M", " ", "t">>,
      <<" ", " ", "s", "e", "l", "e", "c", "t", " ", "a", " ", "f", "r", "o", "m", " ", "t", " ", ";", " ", " ">>,
      <<"S", "e", "l", "e", "c", "t", " ", "a", "\n", "F", "r", "o", "m", " ", "t">>,
      <<"p", "l", "e", "a", "s", "e", " ", "c", "l", "a", "r", "i", "f", "y">>,
      <<>>,
      <<"F", "R", "O", "M", " ", "t", " ", "S", "E", "L", "E", "C", "T", " ", "a">>,
      <<"S", "E", "L", "E", "C", "T", " ", "a", ",", " ", "f", "r", "o", "m", "a", "g", "e">>,
      <<"s", "q", "l", " ", "S", "E", "L", "E", "C", "T", " ", "a", " ", "F", "R", "O", "M", " ", "t">>,
      <<"S", "E", "L", "E", "C", "T", " ", "a", " ", "F", "R", "O", "M", " ", "t", ";", " ", ";">>,
      <<"s", "q", "l", " ", "s", "q", "l", " ", "S", "E", "L", "E", "C", "T", " ", "a", " ", "F", "R", "O", "M", " ", "t">>,
      <<"U+000B", "S", "E", "L", "E", "C", "T", "U+00A0", "a", " ", "F", "R", "O", "M", " ", "t", ";", "U+001F">>,
      <<"U+017F", "e", "l", "e", "c", "t", " ", "a", " ", "U+FB00", "r", "o", "m", " ", "t">>,
      <<"W", "I", "T", "H", " ", "x", " ", "A", "S", " ", "(", "S", "E", "L", "E", "C", "T", " ", "1", " ", "F", "R", "O", "M", " ", "t", ")", " ", "S", "E", "L", "E", "C", "T", " ", "a", " ", "F", "R", "O", "M", " ", "x">> }

GraphResultTables ==
    ResultTables \cup { Frame(0, 0, 0), Frame(1, 3, 5), Frame(2, 1, 9), Frame(12, 1, 0),
                        Frame(1, 1, 0), Frame(1, 1, 120) }

GraphLlmOutcomes ==
    { [ok |-> TRUE, text |-> x] : x \in GraphTranslatorTexts } \cup
    { [ok |-> FALSE, text |-> x] : x \in TranslatorFailures }
GraphExecOutcomes ==
    { [ok |-> TRUE, frame |-> f, text |-> <<>>] : f \in GraphResultTables } \cup
    { [ok |-> FALSE, frame |-> NoneFrame, text |-> x] : x \in ExecutionFailures }

GraphNext ==
    \/ StartTurn(Caller, GraphUtterances, GraphHistories)
    \/ GraphStep(Caller, GraphLlmOutcomes, GraphExecOutcomes)

GraphSpec ==
    Init /\ [][GraphNext]_vars
         /\ WF_vars(GraphStep(Caller, GraphLlmOutcomes, GraphExecOutcomes))

(***************************************************************************)
(* Callers that each work on a session of their own: their turns,          *)
(* deletions and the loads of their histories interleave statement by      *)
(* statement on the one history store, which does not fail by itself.      *)
(***************************************************************************)
SessionOf(p) == IF p = 1 THEN "s1" ELSE "s2"

DisjointNext ==
    \/ \E p \in Procs :
         \/ /\ StartTurn(p, SharedUtterances, SharedHistories)
            /\ arg'[p].session_id = SessionOf(p)
         \/ GraphStep(p, SharedLlmOutcomes, SharedExecOutcomes)
         \/ SvSelect(p)
         \/ SvInsertSession(p)
         \/ SvUpdate(p)
         \/ SvInsertMessage(p)
         \/ SvCommit(p)
         \/ Return(p)
         \/ /\ StartDelete(p)
            /\ arg'[p].session_id = SessionOf(p)
         \/ DelMessages(p)
         \/ DelSession(p)
         \/ DelCommit(p)
    \/ Tick

DisjointSpec == Init /\ [][DisjointNext]_vars
(***************************************************************************)
(* migrate_database (migrate_database.py), run against a history database *)
(* of any age: no file, a file without the table, the table without the    *)
(* session_name column, the table as _init_history_db creates it.          *)
(***************************************************************************)
NamePrefixLen == 8
TxtConversation == <<"C", "o", "n", "v", "e", "r", "s", "a", "t", "i", "o", "n", " ">>

\* session ids as texts (the application's are uuid4 strings of 36 characters)
StoredSessionIds ==
    { <<"s", "1">>, <<"0", "f", "8", "f", "a", "d", "5", "b", "-", "d", "9", "c", "b">>, <<"7", "c", "9", "e", "6", "6", "7", "9", "-", "7", "4", "2", "5">> }
StoredNames == { NameNewChat, <<"T", "o", "p", " ", "5", " ", "s", "t", "a", "t", "e", "s", " ", "b", "y", " ", "s", "a", "l", "e", "s">> }

\* created_at and last_activity of a stored session
StoredTimes == { <<0, 0>>, <<3, 7>> }

\* a row of chat_sessions without / with the session_name column
LegacyRow(sid, t) == [session_id |-> sid, created_at |-> t[1], last_activity |-> t[2]]
NamedRow(sid, name, t) ==
    [session_id |-> sid, session_name |-> name, created_at |-> t[1],
     last_activity |-> t[2]]

\* two session ids (session_id is the primary key: no id twice)
TwoSessionIds == { x \in StoredSessionIds \X StoredSessionIds : x[1] # x[2] }

\* the contents a table of at most two sessions can have
LegacyTables ==
    { <<>> } \cup
    { <<LegacyRow(a, t)>> : a \in StoredSessionIds, t \in StoredTimes } \cup
    { <<LegacyRow(ab[1], t), LegacyRow(ab[2], u)>> :
        ab \in TwoSessionIds, t \in StoredTimes, u \in StoredTimes }
NamedTables ==
    { <<>> } \cup
    { <<NamedRow(a, n, t)>> :
        a \in StoredSessionIds, n \in StoredNames, t \in StoredTimes } \cup
    { <<NamedRow(ab[1], n, t), NamedRow(ab[2], m, t)>> :
        ab \in TwoSessionIds, n \in StoredNames, m \in StoredNames,
        t \in StoredTimes }

NoFile == [exists |-> FALSE, columns |-> {}]
NoTable == [exists |-> TRUE, columns |-> {}]
LegacyDb == [exists |-> TRUE, columns |-> LegacyColumns]

MigrateInit ==
    /\ \/ history_db \in {NoFile, NoTable} /\ chat_sessions = <<>>
       \/ history_db = LegacyDb /\ chat_sessions \in LegacyTables
       \/ history_db = CreatedDb /\ chat_sessions \in NamedTables
    /\ chat_messages = <<>>
    /\ seq = 0
    /\ writer = 0
    /\ clock = 0
    /\ faults = 0
    /\ turns = 0
    /\ deletes = 0
    /\ migrations = 0
    /\ session_state = NewSessionState
    /\ prompt = Null
    /\ sessions = <<>>
    /\ button = NoButton
    /\ pc = [p \in Procs |-> "idle"]
    /\ arg = [p \in Procs |-> NoArg]
    /\ st = [p \in Procs |-> InitialState(<<>>)]
    /\ branch = [p \in Procs |-> InitialState(<<>>)]
    /\ visited = [p \in Procs |-> <<>>]
    /\ calls = [p \in Procs |-> NoCalls]
    /\ phase = [p \in Procs |-> "none"]
    /\ existing = [p \in Procs |-> FALSE]
    /\ txn = [p \in Procs |-> NoTxn]
    /\ log = [p \in Procs |-> <<>>]
    /\ ret = [p \in Procs |-> NoRet]

\* 'session_name' in columns (line 42)
ColumnExists(file) == "session_name" \in file.columns

\* ALTER TABLE chat_sessions ADD COLUMN session_name TEXT: the rows there
\* keep their columns and get NULL in the new one
AddColumn(rows) ==
    [i \in 1..Len(rows) |->
        [session_id |-> rows[i].session_id, session_name |-> Null,
         created_at |-> rows[i].created_at,
         last_activity |-> rows[i].last_activity]]

\* 'Conversation ' || substr(session_id, 1, 8)
DefaultName(sid) == TxtConversation \o Prefix(sid, NamePrefixLen)

\* UPDATE chat_sessions SET session_name = ... WHERE session_name IS NULL
UpdateDefaultNames(db) ==
    LET rows == db.chat_sessions IN
    [db EXCEPT !.chat_sessions =
        [i \in 1..Len(rows) |->
            IF rows[i].session_name = Null
            THEN [rows[i] EXCEPT !.session_name = DefaultName(rows[i].session_id)]
            ELSE rows[i]]]

\* what a run of migrate_database printed last
Migrated(printed) == [kind |-> "migrated", printed |-> printed]

MigrateSteps == {"mig_table_info", "mig_alter", "mig_update", "mig_commit"}
migLocals == <<clock, turns, deletes, arg, turnVars, phase, existing, log, uiVars>>

\* lines 27-35: without the file the run ends at once, and creates none
MigrateDatabase(p) ==
    /\ pc[p] = "idle"
    /\ migrations < MaxMigrations
    /\ migrations' = migrations + 1
    /\ IF ~history_db.exists
       THEN /\ ret' = [ret EXCEPT ![p] = Migrated("doesn't exist")]
            /\ UNCHANGED pc
       ELSE /\ ret' = [ret EXCEPT ![p] = NoRet]
            /\ pc' = [pc EXCEPT ![p] = "mig_table_info"]
    /\ UNCHANGED <<store, history_db, writer, faults, txn, migLocals>>

\* lines 38-43: PRAGMA table_info; with the column there nothing is done
MigTableInfo(p) ==
    /\ pc[p] = "mig_table_info"
    /\ IF ColumnExists(history_db)
       THEN /\ ret' = [ret EXCEPT ![p] = Migrated("already exists")]
            /\ pc' = [pc EXCEPT ![p] = "idle"]
       ELSE /\ pc' = [pc EXCEPT ![p] = "mig_alter"]
            /\ UNCHANGED ret
    /\ UNCHANGED <<store, history_db, writer, faults, txn, migrations, migLocals>>

\* lines 45-50: ALTER TABLE.  sqlite3 opens its implicit transaction before
\* INSERT, UPDATE and DELETE only: the ALTER TABLE runs outside any
\* transaction and is committed when it ends.  Without the table it fails,
\* and the handler (lines 63-65) ends the run.
MigAlterTable(p) ==
    /\ pc[p] = "mig_alter"
    /\ writer \in {0, p}
    /\ IF history_db.columns = {}
       THEN /\ ret' = [ret EXCEPT ![p] = Migrated("failed")]
            /\ pc' = [pc EXCEPT ![p] = "idle"]
            /\ UNCHANGED <<store, history_db>>
       ELSE /\ history_db' = [history_db EXCEPT !.columns = @ \cup {"session_name"}]
            /\ chat_sessions' = AddColumn(chat_sessions)
            /\ pc' = [pc EXCEPT ![p] = "mig_update"]
            /\ UNCHANGED <<chat_messages, seq, ret>>
    /\ UNCHANGED <<writer, faults, txn, migrations, migLocals>>

\* lines 52-57: the UPDATE, in the transaction sqlite3 opens for it
MigUpdateNames(p) ==
    /\ pc[p] = "mig_update"
    /\ Write(p, UpdateDefaultNames(View(p)))
    /\ pc' = [pc EXCEPT ![p] = "mig_commit"]
    /\ UNCHANGED <<history_db, faults, ret, migrations, migLocals>>

\* lines 59-61 and 66: commit, close
MigCommit(p) ==
    /\ pc[p] = "mig_commit"
    /\ Commit(p)
    /\ pc' = [pc EXCEPT ![p] = "idle"]
    /\ ret' = [ret EXCEPT ![p] = Migrated("completed")]
    /\ UNCHANGED <<history_db, faults, migrations, migLocals>>

\* lines 63-66: a statement (or the commit) fails: the database is locked by
\* another program, the disk is full.  The handler rolls the open
\* transaction back and the run ends.
MigFault(p) ==
    /\ pc[p] \in MigrateSteps
    /\ faults < MaxFaults
    /\ faults' = faults + 1
    /\ Rollback(p)
    /\ pc' = [pc EXCEPT ![p] = "idle"]
    /\ ret' = [ret EXCEPT ![p] = Migrated("failed")]
    /\ UNCHANGED <<history_db, migrations, migLocals>>

MigrateNext ==
    \/ MigrateDatabase(Caller)
    \/ MigTableInfo(Caller)
    \/ MigAlterTable(Caller)
    \/ MigUpdateNames(Caller)
    \/ MigCommit(Caller)
    \/ MigFault(Caller)

MigrateSpec == MigrateInit /\ [][MigrateNext]_vars

(***************************************************************************)
(* The chat page (langgraph_app.py): one browser session that keeps its    *)
(* conversation in st.session_state.langgraph_messages, hands it to        *)
(* process_message with every prompt, and can load a stored session or     *)
(* start a new chat.                                                       *)
(***************************************************************************)
TxtUiAnswer == <<"*", "*", "A", "n", "s", "w", "e", "r", ":", "*", "*", " ">>
TxtUiFound == <<"F", "o", "u", "n", "d", " ", "*", "*">>
TxtUiResults == <<"*", "*", " ", "r", "e", "s", "u", "l", "t", "s", ":">>
TxtUiError == <<" ", "E", "r", "r", "o", "r", ":", " ">>

\* the text the page shows for a QueryResult and appends to its in-memory
\* conversation (lines 381-390, 421)
UiResponseText(result) ==
    IF result.success
    THEN IF result.data.rows = 0 THEN TxtNoResults
         ELSE IF result.data.rows = 1 /\ result.data.cols = 1
           THEN TxtUiAnswer \o IntToStr(result.data.value)
         ELSE TxtUiFound \o IntToStr(result.data.rows) \o TxtUiResults
    ELSE TxtUiError \o result.error

\* lines 247-255: the stored history turned into messages, all of it
RestoredMessages(db, sid) == ToMessages(LoadSessionHistory(db, sid))

\* line 189: the page shows a card, with its load and delete buttons, for
\* the first sessions of the list only
ShownLimit == 10
Shown(list) == Prefix(list, ShownLimit)

\* line 187: every script run of the page lists the sessions before it
\* comes to the cards and to the prompt.  An exception of get_all_sessions
\* ends the script run there: no card is shown.
UiList(p) ==
    /\ arg' = [arg EXCEPT ![p] = [op |-> "get_all_sessions"]]
    /\ ret' = [ret EXCEPT ![p] =
           IF Readable THEN Sessions(GetAllSessions(Committed))
           ELSE Raised("DatabaseError", pc[p])]
    /\ sessions' = IF Readable THEN GetAllSessions(Committed) ELSE <<>>

\* the page's script run has ended and the page waits for the user: no
\* prompt and no button is being handled, no st.rerun() is due (line 272
\* asks for one after a delete that returned True)
UserReady(p) ==
    /\ pc[p] = "idle"
    /\ prompt = Null
    /\ IF button = NoButton THEN TRUE
       ELSE ret[p] = Deleted(button.session_id, FALSE)

\* a script run without a prompt and without a button of a session card:
\* the run st.rerun() asks for (lines 174, 260, 272), or one that another
\* widget of the page starts (the download button of line 405).  It lists
\* the sessions (line 187) and shows their cards.
UiRerun(p) ==
    /\ prompt = Null
    /\ \/ pc[p] = "ui_rerun"
       \/ pc[p] = "idle" /\ (button = NoButton \/ ret[p].kind = "deleted")
    /\ UiList(p)
    /\ button' = NoButton
    /\ pc' = [pc EXCEPT ![p] = "idle"]
    /\ UNCHANGED <<store, writer, clock, faults, counters, turnVars, phase,
                   existing, txn, log, migVars, session_state, prompt>>

\* the user presses the load or the delete button of a card the page
\* shows.  The script run this starts lists the sessions again (line 187),
\* and the button (lines 216, 264: its key holds the session id) returns
\* True in the loop of line 189 when the session is among the first ten of
\* the new list; a session that is not has no button in this run.
UiButton(p) ==
    /\ UserReady(p)
    /\ \E i \in 1..Len(Shown(sessions)), key \in {"load", "delete"} :
         /\ key = "delete" => deletes < MaxDeletes
         /\ UiList(p)
         /\ button' =
              IF \E j \in 1..Len(Shown(sessions')) :
                    sessions'[j].session_id = sessions[i].session_id
              THEN [key |-> key, session_id |-> sessions[i].session_id]
              ELSE NoButton
    /\ UNCHANGED <<store, writer, clock, faults, counters, pc, turnVars, phase,
                   existing, txn, log, migVars, session_state, prompt>>

\* lines 350-366: a script run with a prompt (chat input or sample button).
\* The run lists the sessions first (line 187); when that raises, the run
\* ends before it comes to the prompt.
UiPrompt(p, utterances) ==
    /\ UserReady(p)
    /\ turns < MaxTurns
    /\ UiList(p)
    /\ prompt' \in IF Readable THEN utterances ELSE {Null}
    /\ button' = NoButton
    /\ UNCHANGED <<store, writer, clock, faults, counters, pc, turnVars, phase,
                   existing, txn, log, migVars, session_state>>

\* lines 371-375: the page calls process_message with its session id and its
\* in-memory conversation
UiProcess(p) ==
    /\ prompt # Null
    /\ ret[p].kind = "sessions"
    /\ StartTurn(p, {prompt}, {session_state.langgraph_messages})
    /\ arg'[p].session_id = session_state.session_id

\* line 371: process_message has raised.  Nothing catches the exception: the
\* script run ends with the in-memory conversation as it was (line 379 is
\* not reached), and the page takes the next prompt in its next run.
UiRaised(p) ==
    /\ pc[p] = "idle"
    /\ prompt # Null
    /\ ret[p].kind = "raised"
    /\ prompt' = Null
    /\ UNCHANGED <<store, writer, clock, faults, counters, pc, arg, turnVars,
                   phase, existing, txn, log, ret, migVars, session_state,
                   sessions, button>>

\* lines 377-379: process_message has returned; the page appends the prompt
\* to its in-memory conversation, the list object it passed to
\* process_message (line 374)
UiRecord(p) ==
    /\ pc[p] = "idle"
    /\ prompt # Null
    /\ ret[p].kind = "QueryResult"
    /\ session_state' = [session_state EXCEPT !.langgraph_messages =
           arg[p].existing_messages \o <<HumanMessage(prompt)>>]
    /\ pc' = [pc EXCEPT ![p] = "ui_show"]
    /\ UNCHANGED <<store, writer, clock, faults, counters, arg, turnVars,
                   phase, existing, txn, log, ret, migVars, prompt,
                   sessions, button>>

\* lines 381-393 and 420-423: the page shows the text for the result
\* (st.markdown, st.error) and then appends it to its in-memory conversation.
\* Showing it is where Streamlit ends the script run when the user has
\* pressed a button or sent a prompt while process_message ran: the append
\* of line 393 (423) is then not reached.
UiShow(p) ==
    /\ pc[p] = "ui_show"
    /\ \E stopped \in BOOLEAN :
         session_state' = [session_state EXCEPT !.langgraph_messages =
             IF stopped THEN @ ELSE Append(@, AIMessage(UiResponseText(ret[p])))]
    /\ prompt' = Null
    /\ pc' = [pc EXCEPT ![p] = "idle"]
    /\ UNCHANGED <<store, writer, clock, faults, counters, arg, turnVars,
                   phase, existing, txn, log, ret, migVars, sessions, button>>

\* lines 216-260: the load button of a session of this run's list.  The
\* session id is set (line 217) before the history is read from the store as
\* it is now (line 219): a read that raises ends the script run with the
\* conversation of the session before; after a read that returns the
\* conversation is rebuilt and the page asks for a new run (line 260).
UiLoad(p) ==
    /\ pc[p] = "idle"
    /\ button.key = "load"
    /\ ret[p].kind = "sessions"
    /\ session_state' =
         [session_id |-> button.session_id,
          langgraph_messages |->
              IF Readable
              THEN RestoredMessages(Committed, button.session_id)
              ELSE session_state.langgraph_messages]
    /\ pc' = [pc EXCEPT ![p] = IF Readable THEN "ui_rerun" ELSE "idle"]
    /\ button' = NoButton
    /\ UNCHANGED <<store, writer, clock, faults, counters, arg, turnVars,
                   phase, existing, txn, log, ret, migVars, prompt, sessions>>

\* some caller's operation in progress names the session
InUse(sid) ==
    \E q \in Procs : pc[q] \notin {"idle", "ui_rerun"} /\ arg[q].session_id = sid

\* lines 170-174: the New Chat button, handled before the sessions are
\* listed; uuid4 gives an id no session has and no caller uses, and the page
\* asks for a new run
UiNewChat(p) ==
    /\ UserReady(p)
    /\ \E sid \in SessionIds :
         /\ sid # session_state.session_id
         /\ ~SessionExists(Committed, sid)
         /\ SelectSeqBy(chat_messages, sid) = <<>>
         /\ ~InUse(sid)
         /\ session_state' = [session_id |-> sid, langgraph_messages |-> <<>>]
    /\ pc' = [pc EXCEPT ![p] = "ui_rerun"]
    /\ button' = NoButton
    /\ UNCHANGED <<store, writer, clock, faults, counters, arg, turnVars,
                   phase, existing, txn, log, ret, migVars, prompt, sessions>>

\* line 266 with the roles exchanged: every session may be deleted
DeleteAllowedAlways(session_id, current) == TRUE

\* line 266: the delete button acts on every session but the one that is
\* the page's current session
DeleteAllowed(session_id, current) == session_id # current

\* lines 262-274: the delete button of a session of this run's list; for
\* the current session the page only shows a notice (line 267), for another
\* it calls delete_session (line 270)
UiDelete(p) ==
    /\ pc[p] = "idle"
    /\ button.key = "delete"
    /\ ret[p].kind = "sessions"
    /\ IF DeleteAllowed(button.session_id, session_state.session_id)
       THEN StartDeleteOf(p, button.session_id)
       ELSE /\ button' = NoButton
            /\ UNCHANGED <<store, writer, clock, faults, counters, pc, arg,
                           turnVars, phase, existing, txn, log, ret, migVars,
                           session_state, prompt, sessions>>

UiNext ==
    \/ UiPrompt(Caller, Utterances)
    \/ UiProcess(Caller)
    \/ GraphStep(Caller, LlmOutcomes, ExecOutcomes)
    \/ SvSelect(Caller)
    \/ SvInsertSession(Caller)
    \/ SvUpdate(Caller)
    \/ SvInsertMessage(Caller)
    \/ SvCommit(Caller)
    \/ Return(Caller)
    \/ UiRecord(Caller)
    \/ UiShow(Caller)
    \/ UiRerun(Caller)
    \/ UiButton(Caller)
    \/ UiLoad(Caller)
    \/ UiNewChat(Caller)
    \/ UiDelete(Caller)
    \/ DelMessages(Caller)
    \/ DelSession(Caller)
    \/ DelCommit(Caller)

UiSpec ==
    Init /\ [][UiNext]_vars
         /\ WF_vars(GraphStep(Caller, LlmOutcomes, ExecOutcomes))

(***************************************************************************)
(* One caller's turns on a history store that earlier turns have filled:   *)
(* utterances of every length, sessions of no, few and more than           *)
(* RecentLimit persisted messages.  The turns follow each other within one  *)
(* second of the store's clock.                                            *)
(***************************************************************************)
HistoryUtterances ==
    { <<"T", "o", "p", " ", "5", " ", "s", "t", "a", "t", "e", "s", " ", "b", "y", " ", "s", "a", "l", "e", "s", "?">>,
      <<"h", "i", "?">>,
      <<" ", " ", "S", "h", "o", "w", " ", "r", "e", "v", "e", "n", "u", "e", " ", "b", "y", " ", "m", "o", "n", "t", "h", " ", "f", "o", "r", " ", "t", "h", "e", " ", "l", "a", "s", "t", " ", "y", "e", "a", "r", "!", " ", " ", "a", "n", "d", " ", "m", "o", "r", "e">>,
      <<"1", "2", "3", "4", "5", "6", "7", "8", "9", "?">>,
      <<"1", "2", "3", "4", "5", "6", "7", "8", "9", "0">>,
      <<"t", "e", "l", "l", " ", "m", "e", " ", "m", "o", "r", "e", " ", ",", "!">>,
      <<"W", "h", "i", "c", "h", " ", "s", "e", "l", "l", "e", "r", "s", " ", "s", "h", "i", "p", "p", "e", "d", " ", "l", "a", "t", "e", " ", "i", "n", " ", "M", "a", "r", "c", "h", " ", "2", "0", ",", " ", "a", "n", "d", " ", "w", "h", "y", "?">> }

\* save_message from connect to commit, no other connection writing meanwhile
SaveMessage(db, sid, a, now) ==
    LET d1 == IF SessionExists(db, sid) THEN db
              ELSE InsertSession(db, sid,
                       IF a.role = "user" THEN GenerateSessionName(a.content)
                       ELSE NameNewChat, now)
        d2 == UpdateLastActivity(d1, sid, now)
    IN  InsertMessage(d2, sid, a.role, a.content, a.sql, a.result_count,
                      a.success, now)

\* the k-th question put to a session, and the state a turn ends in when the
\* translator answered it and the database returned k + 1 rows
PastQuestion(k) == <<"q", "u", "e", "s", "t", "i", "o", "n", " ">> \o IntToStr(k)
PastFinalState(k) ==
    FormatResponseNode(
        [InitialState(<<HumanMessage(PastQuestion(k))>>) EXCEPT
            !.last_sql = <<"S", "E", "L", "E", "C", "T", " ", "a", " ", "F", "R", "O", "M", " ", "t">>,
            !.last_result = Frame(k + 1, 2, 0),
            !.query_count = 1])

\* the two save_message calls of the k-th turn on a session (lines 494-519)
PastTurn(db, sid, k) ==
    SaveMessage(SaveMessage(db, sid, UserSaveArgs(PastQuestion(k)), 0),
                sid, AssistantSaveArgs(PastFinalState(k)), 0)

\* the store after turns first..last on a session
RECURSIVE AfterTurns(_, _, _, _)
AfterTurns(db, sid, first, last) ==
    IF first > last THEN db
    ELSE AfterTurns(PastTurn(db, sid, first), sid, first + 1, last)

EmptyDb == Db(<<>>, <<>>, 0)

\* stores that earlier turns left: empty; one turn; five turns (RecentLimit
\* messages); six turns; six turns whose last assistant message was not
\* saved; the turns of two sessions interleaved
StoredDbs ==
    { EmptyDb,
      AfterTurns(EmptyDb, "s1", 1, 1),
      AfterTurns(EmptyDb, "s1", 1, 5),
      AfterTurns(EmptyDb, "s1", 1, 6),
      SaveMessage(AfterTurns(EmptyDb, "s1", 1, 5), "s1",
                  UserSaveArgs(PastQuestion(6)), 0),
      AfterTurns(AfterTurns(AfterTurns(EmptyDb, "s1", 1, 3), "s2", 4, 6),
                 "s1", 7, 9) }

HistoryInit ==
    /\ \E db \in StoredDbs :
         /\ chat_sessions = db.chat_sessions
         /\ chat_messages = db.chat_messages
         /\ seq = db.seq
    /\ writer = 0
    /\ clock = 0
    /\ faults = 0
    /\ turns = 0
    /\ deletes = 0
    /\ pc = [p \in Procs |-> "idle"]
    /\ arg = [p \in Procs |-> NoArg]
    /\ st = [p \in Procs |-> InitialState(<<>>)]
    /\ branch = [p \in Procs |-> InitialState(<<>>)]
    /\ visited = [p \in Procs |-> <<>>]
    /\ calls = [p \in Procs |-> NoCalls]
    /\ phase = [p \in Procs |-> "none"]
    /\ existing = [p \in Procs |-> FALSE]
    /\ txn = [p \in Procs |-> NoTxn]
    /\ log = [p \in Procs |-> <<>>]
    /\ ret = [p \in Procs |-> NoRet]
    /\ history_db = CreatedDb
    /\ migrations = 0
    /\ session_state = NewSessionState
    /\ prompt = Null
    /\ sessions = <<>>
    /\ button = NoButton

HistoryNext ==
    \/ StartTurn(Caller, HistoryUtterances, ExistingChoices)
    \/ GraphStep(Caller, SharedLlmOutcomes, SharedExecOutcomes)
    \/ SvSelect(Caller)
    \/ SvInsertSession(Caller)
    \/ SvUpdate(Caller)
    \/ SvInsertMessage(Caller)
    \/ SvCommit(Caller)
    \/ Return(Caller)

HistorySpec ==
    HistoryInit /\ [][HistoryNext]_vars
                /\ WF_vars(GraphStep(Caller, SharedLlmOutcomes, SharedExecOutcomes))

(***************************************************************************)
(* The chat page on a history store it shares: another caller (a second    *)
(* browser session's agent) runs its turns and its deletes statement by    *)
(* statement between the page's steps, and the store fails the statements  *)
(* of both.  The page starts on a new store, or on the store that eleven   *)
(* earlier chats of one turn each have left: one session more than the     *)
(* page shows cards for.                                                   *)
(***************************************************************************)
\* the session ids of the earlier chats, in the order the chats were held
PastIds == <<"p01", "p02", "p03", "p04", "p05", "p06", "p07", "p08", "p09", "p10", "p11">>

\* the store one earlier chat leaves on its own: the session row and the two
\* message rows of its turn
PastChat(k) == PastTurn(EmptyDb, PastIds[k], k)

\* the store after the first n of the earlier chats, held one after the
\* other: their session rows, and their message rows with the ids
\* AUTOINCREMENT gives them
AfterChats(n) ==
    Db([k \in 1..n |-> PastChat(k).chat_sessions[1]],
       [i \in 1..(2 * n) |->
          [PastChat((i + 1) \div 2).chat_messages[2 - (i % 2)] EXCEPT !.id = i]],
       2 * n)

StoredChats == AfterChats(ShownLimit + 1)

\* the turns of the earlier chats count as turns made so far: on their store
\* the page lists, loads, deletes and starts new chats, and no further turn
\* starts
UiSharedInit ==
    /\ \E db \in {EmptyDb, StoredChats} :
         /\ chat_sessions = db.chat_sessions
         /\ chat_messages = db.chat_messages
         /\ seq = db.seq
         /\ turns = Len(db.chat_sessions)
    /\ writer = 0
    /\ clock = 0
    /\ faults = 0
    /\ deletes = 0
    /\ pc = [p \in Procs |-> "idle"]
    /\ arg = [p \in Procs |-> NoArg]
    /\ st = [p \in Procs |-> InitialState(<<>>)]
    /\ branch = [p \in Procs |-> InitialState(<<>>)]
    /\ visited = [p \in Procs |-> <<>>]
    /\ calls = [p \in Procs |-> NoCalls]
    /\ phase = [p \in Procs |-> "none"]
    /\ existing = [p \in Procs |-> FALSE]
    /\ txn = [p \in Procs |-> NoTxn]
    /\ log = [p \in Procs |-> <<>>]
    /\ ret = [p \in Procs |-> NoRet]
    /\ history_db = CreatedDb
    /\ migrations = 0
    /\ session_state = NewSessionState
    /\ prompt = Null
    /\ sessions = <<>>
    /\ button = NoButton

UiSharedNext ==
    \/ UiPrompt(Caller, SharedUtterances)
    \/ UiProcess(Caller)
    \/ UiRaised(Caller)
    \/ UiRecord(Caller)
    \/ UiShow(Caller)
    \/ UiRerun(Caller)
    \/ UiButton(Caller)
    \/ UiLoad(Caller)
    \/ UiNewChat(Caller)
    \/ UiDelete(Caller)
    \/ \E p \in Procs \ {Caller} :
         \/ StartTurn(p, SharedUtterances, SharedHistories)
         \/ StartDelete(p)
    \/ \E p \in Procs :
         \/ GraphStep(p, SharedLlmOutcomes, SharedExecOutcomes)
         \/ SvSelect(p)
         \/ SvInsertSession(p)
         \/ SvUpdate(p)
         \/ SvInsertMessage(p)
         \/ SvCommit(p)
         \/ SvFault(p)
         \/ SvLocked(p)
         \/ Return(p)
         \/ DelMessages(p)
         \/ DelSession(p)
         \/ DelCommit(p)
         \/ DelFault(p)
         \/ DelLocked(p)
    \/ Collect

UiSharedSpec == UiSharedInit /\ [][UiSharedNext]_vars

(***************************************************************************)
(* Properties.                                                             *)
(***************************************************************************)
\* p's call of process_message ended at the load of the history (line 469),
\* before the graph was started
EndedAtLoad(p) ==
    /\ arg[p].op = "process_message"
    /\ pc[p] = "idle"
    /\ ret[p].kind = "raised"
    /\ ret[p].at = "idle"

\* p's turn was started and has left the graph (it is saving, has returned or
\* has raised)
GraphDone(p) ==
    /\ arg[p].op = "process_message"
    /\ pc[p] \notin Nodes
    /\ ~EndedAtLoad(p)

Occurrences(v, x) == Cardinality({i \in 1..Len(v) : v[i] = x})

\* the nodes p's turn ran so far form a path from the entry point on which
\* no node occurs twice, the translator and the executor were invoked at most
\* once, and a finished graph ran exactly one of format_response, handle_error
PathOk(p) ==
    LET v == visited[p] IN
    /\ v # <<>> => v[1] = "understand_query"
    /\ \A n \in Nodes : Occurrences(v, n) <= 1
    /\ pc[p] \in Nodes => Occurrences(v, pc[p]) = 0
    /\ Len(calls[p].llm) <= 1
    /\ Len(calls[p].exec) <= 1
    /\ GraphDone(p) =>
         /\ v # <<>>
         /\ Occurrences(v, "format_response") + Occurrences(v, "handle_error") = 1
         /\ v[Len(v)] \in {"format_response", "handle_error"}

\* C1: every turn starts at understand_query, runs each node at most once (the
\* translator and the executor at most once, no retry), passes through exactly
\* one of format_response and handle_error, and then reaches END
C1_TurnReachesEnd ==
    /\ [](\A p \in Procs : PathOk(p))
    /\ \A p \in Procs : (pc[p] \in Nodes) ~> (pc[p] = "END")

C1_Witness ==
    /\ pc[Caller] = "END"
    /\ visited[Caller] = <<"understand_query", "generate_sql", "execute_query",
                           "handle_error">>

\* the translator answered and its cleaned text passes the validator
GeneratedValidSql(p) ==
    /\ calls[p].llm # <<>>
    /\ calls[p].llm[1].ok
    /\ SqlValid(CleanSql(calls[p].llm[1].text))

\* C2: execute_query is entered only with no error set and a generated SQL that
\* begins with SELECT and contains FROM; in every other case the turn goes to
\* handle_error and no SQL is run against the store
C2_ExecuteOnlyValidSql ==
    \A p \in Procs :
      /\ pc[p] = "execute_query" =>
           /\ st[p].error = <<>>
           /\ SqlValid(st[p].last_sql)
      /\ \A i \in 1..Len(calls[p].exec) : SqlValid(calls[p].exec[i].sql)
      /\ Occurrences(visited[p], "generate_sql") = 1 =>
           IF GeneratedValidSql(p)
           THEN pc[p] = "execute_query" \/ Occurrences(visited[p], "execute_query") = 1
           ELSE /\ pc[p] # "execute_query"
                /\ Occurrences(visited[p], "execute_query") = 0
                /\ calls[p].exec = <<>>
                /\ pc[p] = "handle_error" \/ Occurrences(visited[p], "handle_error") = 1

\* the translator returned a text without FROM, the turn ended in handle_error
C2_Witness ==
    /\ pc[Caller] = "END"
    /\ calls[Caller].llm # <<>>
    /\ calls[Caller].llm[1].ok
    /\ StartsWithSelect(st[Caller].last_sql)
    /\ ~ContainsFrom(st[Caller].last_sql)
    /\ visited[Caller] = <<"understand_query", "generate_sql", "handle_error">>
    /\ calls[Caller].exec = <<>>

\* C3: every persisted assistant message whose sql_query is not NULL holds
\* a SQL string that passed validation
C3_PersistedSqlValidated ==
    \A i \in 1..Len(chat_messages) :
      (chat_messages[i].role = "assistant" /\ chat_messages[i].sql_query # Null)
        => SqlValid(chat_messages[i].sql_query)

\* process_message returned a QueryResult to p
Returned(p) ==
    /\ arg[p].op = "process_message"
    /\ pc[p] = "idle"
    /\ ret[p].kind = "QueryResult"

\* an input error, a translator failure, a validation rejection or an
\* execution failure occurred in p's turn
ErrorOccurred(p) ==
    \/ visited[p] = <<"understand_query", "handle_error">>
    \/ \E i \in 1..Len(calls[p].llm) :
          \/ ~calls[p].llm[i].ok
          \/ ~SqlValid(CleanSql(calls[p].llm[i].text))
    \/ \E i \in 1..Len(calls[p].exec) : ~calls[p].exec[i].out.ok

\* C4: whichever of these errors occurs in a turn, process_message raises
\* nothing because of it and returns a QueryResult with success = false and a
\* non-empty error text
C4_ErrorsReported ==
    \A p \in Procs :
      (arg[p].op = "process_message" /\ pc[p] = "idle" /\ ErrorOccurred(p)
         /\ ret[p].kind # "none") =>
        \/ /\ ret[p].kind = "QueryResult"
           /\ ret[p].success = FALSE
           /\ ret[p].error # Null
           /\ ret[p].error # <<>>
        \/ /\ ret[p].kind = "raised"
           /\ ret[p].error = "OperationalError"

\* C5: a save_message that fails in a turn whose graph ended without error
\* is not propagated: process_message still returns success = true
C5_SaveFailureNotPropagated ==
    \A p \in Procs :
      (arg[p].op = "process_message" /\ pc[p] = "idle" /\ ret[p].kind # "none"
         /\ TurnSuccess(st[p]) /\ Occurrences(visited[p], "format_response") = 1) =>
        /\ ret[p].kind = "QueryResult"
        /\ ret[p].success = TRUE

\* C6: a turn that process_message completes has added exactly two messages to
\* its session's history, the user message first and the assistant message
\* second, on the success path and on every error path
C6_TwoMessagesPerTurn ==
    \A p \in Procs :
      Returned(p) =>
        LET mine == SelectSeqBy(chat_messages, arg[p].session_id) IN
        /\ Len(log[p]) = 2
        /\ log[p][1].role = "user"
        /\ log[p][1].content = arg[p].user_message
        /\ log[p][1].session_id = arg[p].session_id
        /\ log[p][2].role = "assistant"
        /\ log[p][2].session_id = arg[p].session_id
        /\ log[p][2].id = log[p][1].id + 1
        /\ Len(mine) >= 2
        /\ SubSeq(mine, Len(mine) - 1, Len(mine)) = log[p]

\* a completed turn that went through handle_error, on a session that already
\* held an earlier turn
C6_Witness ==
    /\ Returned(Caller)
    /\ Occurrences(visited[Caller], "handle_error") = 1
    /\ Len(SelectSeqBy(chat_messages, arg[Caller].session_id)) = 4

SessionRows(rows, sid) == Cardinality({i \in 1..Len(rows) : rows[i].session_id = sid})

\* p's save_message commits in this step
SaveCommits(p) ==
    /\ pc[p] = "sv_commit"
    /\ pc'[p] \in {"saved_user", "saved_assistant"}

\* C7: save_message on a session id without a session row creates exactly one
\* session row and one message row; on a session id that has its row it
\* creates one message row and no session row (and does not fail for the row
\* being there); so there is exactly one session row per session id
C7_OneSessionRowPerId ==
    /\ [](\A sid \in SessionIds : SessionRows(chat_sessions, sid) <= 1)
    /\ [](\A p \in Procs : ret[p].kind = "raised" => ret[p].error # "IntegrityError")
    /\ [][\A p \in Procs : SaveCommits(p) =>
            /\ Len(chat_messages') = Len(chat_messages) + 1
            /\ SubSeq(chat_messages', 1, Len(chat_messages)) = chat_messages
            /\ chat_messages'[Len(chat_messages')].session_id = arg[p].session_id
            /\ SessionRows(chat_sessions', arg[p].session_id) = 1
            /\ Len(chat_sessions') =
                 IF SessionRows(chat_sessions, arg[p].session_id) = 0
                 THEN Len(chat_sessions) + 1
                 ELSE Len(chat_sessions)]_vars

\* four appends to one session id: one session row, four message rows
C7_Witness ==
    /\ Len(chat_sessions) = 1
    /\ Len(chat_messages) = 4
    /\ Len(SelectSeqBy(chat_messages, chat_sessions[1].session_id)) = 4

NonDecreasing(rows) ==
    \A i \in 1..Len(rows) : \A j \in i..Len(rows) :
        rows[i].timestamp <= rows[j].timestamp

\* C8: for every session, load_session_history returns the session's messages
\* in non-decreasing timestamp order and in the order of the appends (the
\* order of their ids), also when messages carry the same timestamp
C8_HistoryInAppendOrder ==
    \A sid \in SessionIds :
      LET appended == SelectSeqBy(chat_messages, sid) IN
      /\ NonDecreasing(LoadSessionHistory(Committed, sid))
      /\ LoadSessionHistory(Committed, sid) =
           [i \in 1..Len(appended) |-> HistoryRecord(appended[i])]
      /\ \A i \in 1..Len(appended) : \A j \in i..Len(appended) :
           appended[i].id <= appended[j].id

\* a session holding two messages of one timestamp and a later one
C8_Witness ==
    \E sid \in SessionIds :
      LET h == LoadSessionHistory(Committed, sid) IN
      /\ Len(h) >= 3
      /\ h[1].timestamp = h[2].timestamp
      /\ h[1] # h[2]
      /\ h[2].timestamp < h[Len(h)].timestamp

\* p's save_message or delete_session fails in this step
StoreCallFails(p) ==
    /\ pc[p] \in {"END", "saved_user"} \cup SaveSteps \cup DeleteSteps
    /\ pc'[p] = "idle"
    /\ ret'[p].kind = "raised" \/ (ret'[p].kind = "deleted" /\ ~ret'[p].value)

\* C9: save_message is atomic: the session row it creates is in no committed
\* state without its message row, and when it fails at any step nothing of it
\* is in the store
C9_AppendAtomic ==
    /\ [](\A p \in Procs :
            (pc[p] \in {"sv_update", "sv_insert_message", "sv_commit"} /\ ~existing[p])
              => ~SessionExists(Committed, arg[p].session_id))
    /\ [](\A i \in 1..Len(chat_sessions) :
            SelectSeqBy(chat_messages, chat_sessions[i].session_id) # <<>>)
    /\ [][\A p \in Procs : StoreCallFails(p) => UNCHANGED store]_vars

\* a save_message that had inserted a session row failed, and the store shows
\* no session
C9_Witness ==
    \E p \in Procs :
      /\ pc[p] = "idle"
      /\ ret[p].kind = "raised"
      /\ ret[p].at \in {"sv_update", "sv_insert_message", "sv_commit"}
      /\ ~existing[p]
      /\ ~SessionExists(Committed, arg[p].session_id)
      /\ SelectSeqBy(chat_messages, arg[p].session_id) = <<>>

\* p's delete_session returns in this step
DeleteReturns(p) == pc[p] \in DeleteSteps /\ pc'[p] = "idle"

\* C10: delete_session on an existing session returns true (it returns false
\* only when the store failed one of its statements), and then the store
\* holds no message and no session row of that id: load_session_history is
\* empty for it
C10_DeleteRemovesSession ==
    [][\A p \in Procs : DeleteReturns(p) =>
         /\ ret'[p].kind = "deleted"
         /\ ret'[p].value = (faults' = faults)
         /\ ret'[p].value =>
              /\ SessionRows(chat_sessions', arg[p].session_id) = 0
              /\ SessionRows(chat_messages', arg[p].session_id) = 0
              /\ LoadSessionHistory(Db(chat_sessions', chat_messages', seq'),
                                    arg[p].session_id) = <<>>
              /\ RejectSeqBy(chat_sessions, arg[p].session_id) = chat_sessions'
              /\ RejectSeqBy(chat_messages, arg[p].session_id) = chat_messages']_vars

\* the part that holds: a delete_session that finds the write lock free or
\* with a caller at work, and whose statements the store does not fail,
\* returns true and leaves no row of the id
C10_DeleteUnlessLocked ==
    [][\A p \in Procs : DeleteReturns(p) =>
         /\ ret'[p].kind = "deleted"
         /\ ret'[p].value = (faults' = faults /\ writer \notin {Unclosed, UnclosedPending})
         /\ ret'[p].value =>
              /\ SessionRows(chat_sessions', arg[p].session_id) = 0
              /\ SessionRows(chat_messages', arg[p].session_id) = 0
              /\ RejectSeqBy(chat_sessions, arg[p].session_id) = chat_sessions'
              /\ RejectSeqBy(chat_messages, arg[p].session_id) = chat_messages']_vars

\* a delete_session returned true for a session another caller's turn had
\* written: the rows are gone
C10_Witness ==
    \E p \in Procs, q \in Procs :
      /\ pc[p] = "idle"
      /\ ret[p].kind = "deleted"
      /\ ret[p].value
      /\ Returned(q)
      /\ arg[q].session_id = ret[p].session_id
      /\ SessionRows(chat_sessions, ret[p].session_id) = 0
      /\ SessionRows(chat_messages, ret[p].session_id) = 0
      /\ seq >= 2

\* p's get_all_sessions returns in this step (with a list other than the
\* one its last call returned)
ListReturns(p) ==
    /\ pc[p] = "idle"
    /\ pc'[p] = "idle"
    /\ ret'[p] # ret[p]
    /\ ret'[p].kind = "sessions"

\* the list holds one record for every row of chat_sessions and no other, in
\* non-increasing last_activity order, each with the number of its messages
ListingOk(list, rows, messages) ==
    /\ Len(list) = Len(rows)
    /\ \A i \in 1..Len(rows) :
         Cardinality({k \in 1..Len(list) :
             /\ list[k].session_id = rows[i].session_id
             /\ list[k].last_activity = rows[i].last_activity
             /\ list[k].session_name = rows[i].session_name}) = 1
    /\ \A k \in 1..Len(list) : \A l \in k..Len(list) :
         list[k].last_activity >= list[l].last_activity
    /\ \A k \in 1..Len(list) :
         list[k].message_count =
           Cardinality({m \in 1..Len(messages) :
                          messages[m].session_id = list[k].session_id})

\* C11: get_all_sessions returns every session once, by last_activity
\* descending, with message_count the number of the session's persisted
\* messages; in the list taken right after an append to a session no session
\* has a later last_activity than that one
C11_SessionsListed ==
    [][\A p \in Procs :
         /\ ListReturns(p) =>
              ListingOk(ret'[p].value, chat_sessions, chat_messages)
         /\ SaveCommits(p) =>
              LET list == GetAllSessions(Db(chat_sessions', chat_messages', seq')) IN
              /\ ListingOk(list, chat_sessions', chat_messages')
              /\ \A k \in 1..Len(list) :
                   list[k].session_id = arg[p].session_id =>
                     \A l \in 1..Len(list) :
                        list[l].last_activity <= list[k].last_activity]_vars

\* a list of two sessions of different last_activity, the later one first,
\* with the message counts 2 and 1
C11_Witness ==
    \E p \in Procs :
      /\ ret[p].kind = "sessions"
      /\ Len(ret[p].value) = 2
      /\ ret[p].value[1].last_activity > ret[p].value[2].last_activity
      /\ ret[p].value[1].session_id = chat_sessions[2].session_id
      /\ ret[p].value[1].message_count = 2
      /\ ret[p].value[2].message_count = 1

\* one character in lower case
LowerChar(c) ==
    IF \E i \in 1..Len(UpperLetters) : UpperLetters[i] = c
    THEN LowerLetters[CHOOSE i \in 1..Len(UpperLetters) : UpperLetters[i] = c]
    ELSE c

\* Unicode case folding of the characters the texts of the model are made
\* of: the long s folds to s, the ligature ff to two letters
FoldChar(c) ==
    IF c = "U+017F" THEN <<"s">>
    ELSE IF c = "U+FB00" THEN <<"f", "f">>
    ELSE <<LowerChar(c)>>
RECURSIVE Folded(_)
Folded(t) == IF t = <<>> THEN <<>> ELSE FoldChar(Head(t)) \o Folded(Tail(t))

\* the text without the white space at its two ends
Trimmed(t) ==
    LET inked == {i \in 1..Len(t) : ~IsSpace(t[i])} IN
    IF inked = {} THEN <<>>
    ELSE SubSeq(t, CHOOSE i \in inked : \A j \in inked : i <= j,
                   CHOOSE i \in inked : \A j \in inked : i >= j)

\* t begins with the word / holds the word somewhere, whatever the case of
\* its letters
BeginsWithWord(t, word) ==
    /\ Len(Folded(t)) >= Len(word)
    /\ \A i \in 1..Len(word) : Folded(t)[i] = word[i]
HasWord(t, word) ==
    \E k \in 0..(Len(Folded(t)) - Len(word)) :
        \A i \in 1..Len(word) : Folded(t)[k + i] = word[i]

\* the validator has just judged the text the translator returned in p's turn
ValidatorRan(p) ==
    /\ visited[p] # <<>>
    /\ visited[p][Len(visited[p])] = "generate_sql"
    /\ calls[p].llm[1].ok

\* C12: the validator accepts the SQL text it is given if and only if the
\* trimmed text begins with SELECT and holds FROM, case ignored; it rejects a
\* text not beginning with SELECT with the reason "doesn't start with SELECT"
\* and a text beginning with SELECT but without FROM with the reason "missing
\* FROM clause"; so "SELECT a FROM t" is valid, "DELETE FROM t" and "SELECT a"
\* are rejected with these two reasons
C12_ValidatorAcceptance ==
    \A p \in Procs :
      ValidatorRan(p) =>
        LET sql == st[p].last_sql
            accepted == pc[p] = "execute_query"
        IN  /\ accepted <=> /\ BeginsWithWord(Trimmed(sql), <<"s", "e", "l", "e", "c", "t">>)
                            /\ HasWord(Trimmed(sql), <<"f", "r", "o", "m">>)
            /\ ~accepted =>
                 /\ pc[p] = "handle_error"
                 /\ branch[p].error =
                      IF ~BeginsWithWord(Trimmed(sql), <<"s", "e", "l", "e", "c", "t">>)
                      THEN <<"I", "n", "v", "a", "l", "i", "d", " ", "S", "Q", "L", ":", " ", "d", "o", "e", "s", "n", "'", "t", " ", "s", "t", "a", "r", "t", " ", "w", "i", "t", "h", " ", "S", "E", "L", "E", "C", "T">>
                      ELSE <<"I", "n", "v", "a", "l", "i", "d", " ", "S", "Q", "L", ":", " ", "m", "i", "s", "s", "i", "n", "g", " ", "F", "R", "O", "M", " ", "c", "l", "a", "u", "s", "e">>
            /\ sql = <<"S", "E", "L", "E", "C", "T", " ", "a", " ", "F", "R", "O", "M", " ", "t">> => accepted
            /\ sql = <<"D", "E", "L", "E", "T", "E", " ", "F", "R", "O", "M", " ", "t">> =>
                 ~accepted /\ branch[p].error = <<"I", "n", "v", "a", "l", "i", "d", " ", "S", "Q", "L", ":", " ", "d", "o", "e", "s", "n", "'", "t", " ", "s", "t", "a", "r", "t", " ", "w", "i", "t", "h", " ", "S", "E", "L", "E", "C", "T">>
            /\ sql = <<"S", "E", "L", "E", "C", "T", " ", "a">> =>
                 ~accepted /\ branch[p].error = <<"I", "n", "v", "a", "l", "i", "d", " ", "S", "Q", "L", ":", " ", "m", "i", "s", "s", "i", "n", "g", " ", "F", "R", "O", "M", " ", "c", "l", "a", "u", "s", "e">>

\* the validator accepted a text in lower case that the translator had
\* returned with blanks around it
C12_Witness ==
    /\ ValidatorRan(Caller)
    /\ calls[Caller].llm[1].text = <<" ", " ", "s", "e", "l", "e", "c", "t", " ", "a", " ", "f", "r", "o", "m", " ", "t", " ", ";", " ", " ">>
    /\ st[Caller].last_sql = <<"s", "e", "l", "e", "c", "t", " ", "a", " ", "f", "r", "o", "m", " ", "t">>
    /\ pc[Caller] = "execute_query"

\* the decimal numerals of the numbers the result tables of GraphSpec hold
Numeral ==
    (0 :> <<"0">>) @@ (1 :> <<"1">>) @@ (2 :> <<"2">>) @@ (3 :> <<"3">>) @@ (5 :> <<"5">>) @@
    (7 :> <<"7">>) @@ (9 :> <<"9">>) @@ (12 :> <<"1", "2">>) @@ (42 :> <<"4", "2">>) @@ (120 :> <<"1", "2", "0">>)

\* the message the formatter is to produce for a result table
ExpectedMessage(df) ==
    IF df.rows = 0 THEN <<"I", " ", "f", "o", "u", "n", "d", " ", "n", "o", " ", "r", "e", "s", "u", "l", "t", "s", " ", "f", "o", "r", " ", "y", "o", "u", "r", " ", "q", "u", "e", "r", "y", ".">>
    ELSE IF df.rows = 1 /\ df.cols = 1 THEN <<"T", "h", "e", " ", "a", "n", "s", "w", "e", "r", " ", "i", "s", ":", " ">> \o Numeral[df.value]
    ELSE <<"I", " ", "f", "o", "u", "n", "d", " ">> \o Numeral[df.rows] \o <<" ", "r", "e", "s", "u", "l", "t", "s", " ", "f", "o", "r", " ", "y", "o", "u", "r", " ", "q", "u", "e", "r", "y", ".">>

\* format_response has just run in p's turn
FormatRan(p) ==
    /\ visited[p] # <<>>
    /\ visited[p][Len(visited[p])] = "format_response"

\* C13: for the result table of the turn, format_response appends to the
\* working message list exactly one assistant message, whose text is the
\* fixed no-results message for zero rows, "The answer is: <value>" for one
\* row and one column, and "I found <n> results for your query." otherwise
\* (one row of several columns included)
C13_FormatterText ==
    \A p \in Procs :
      FormatRan(p) =>
        LET df == calls[p].exec[1].out.frame
            before == WorkingMessages(Committed, arg[p].session_id,
                                      arg[p].user_message, arg[p].existing_messages)
        IN  /\ st[p].messages = before \o <<AIMessage(ExpectedMessage(df))>>
            /\ df = Frame(1, 1, 42) =>
                 st[p].messages[Len(st[p].messages)].content = <<"T", "h", "e", " ", "a", "n", "s", "w", "e", "r", " ", "i", "s", ":", " ", "4", "2">>
            /\ df.rows = 3 =>
                 st[p].messages[Len(st[p].messages)].content =
                   <<"I", " ", "f", "o", "u", "n", "d", " ", "3", " ", "r", "e", "s", "u", "l", "t", "s", " ", "f", "o", "r", " ", "y", "o", "u", "r", " ", "q", "u", "e", "r", "y", ".">>

\* the formatter ran on a table of one row and three columns
C13_Witness ==
    /\ FormatRan(Caller)
    /\ calls[Caller].exec[1].out.frame = Frame(1, 3, 5)
    /\ st[Caller].messages[Len(st[Caller].messages)] =
         AIMessage(<<"I", " ", "f", "o", "u", "n", "d", " ", "1", " ", "r", "e", "s", "u", "l", "t", "s", " ", "f", "o", "r", " ", "y", "o", "u", "r", " ", "q", "u", "e", "r", "y", ".">>)

\* generate_sql has run in p's turn: the translator was given a prompt
Prompted(p) == calls[p].prompt # <<>>

\* the messages of the working list before its newest one, system messages
\* left out, each with its place in the list
PriorPlaces(messages) ==
    {i \in 1..(Len(messages) - 1) : messages[i].type # "system"}

\* C14: the context given to the translator shows the messages that stand
\* among the last 7 before the newest one and are no system messages (so at
\* most 7, and never the newest user message), in the order of the list, and
\* is empty when the working list holds nothing before the newest message
C14_ContextBounded ==
    \A p \in Procs :
      Prompted(p) =>
        LET messages == WorkingMessages(Committed, arg[p].session_id,
                                        arg[p].user_message, arg[p].existing_messages)
            lines == calls[p].prompt[1].context.lines
            shown == {k \in PriorPlaces(messages) : k >= Len(messages) - 7}
            at(i) == CHOOSE k \in shown : Cardinality({j \in shown : j < k}) = i - 1
        IN  /\ Len(lines) <= 7
            /\ Len(messages) = 1 => calls[p].prompt[1].context = NoContext
            /\ shown = {} => calls[p].prompt[1].context = NoContext
            /\ Len(lines) = Cardinality(shown)
            /\ \A i \in 1..Len(lines) :
                 /\ at(i) < Len(messages)
                 /\ lines[i].content = Prefix(messages[at(i)].content, 150)
                 /\ lines[i].role =
                      IF messages[at(i)].type = "human" THEN "User" ELSE "Assistant"
                 /\ lines[i].number = i
            /\ (\A k \in 1..(Len(messages) - 1) :
                    messages[k].content # messages[Len(messages)].content)
                 => \A i \in 1..Len(lines) :
                      lines[i].content # messages[Len(messages)].content
            /\ calls[p].prompt[1].user_query = arg[p].user_message

\* a working list of ten earlier messages: the context shows the last seven
C14_Witness ==
    /\ Prompted(Caller)
    /\ Len(arg[Caller].existing_messages) = 10
    /\ Len(calls[Caller].prompt[1].context.lines) = 7
    /\ calls[Caller].prompt[1].context.lines[1].content = <<"a", "4">>
    /\ calls[Caller].prompt[1].context.lines[7].content = <<"a", "1", "0">>

RECURSIVE LastGeneratedSql(_)
\* the SQL of the latest assistant message among these rows that holds one
\* (<<>>: no turn of the session generated SQL)
LastGeneratedSql(rows) ==
    IF rows = <<>> THEN <<>>
    ELSE LET r == rows[Len(rows)] IN
         IF r.role = "assistant" /\ r.sql_query # Null /\ r.sql_query # <<>>
         THEN r.sql_query
         ELSE LastGeneratedSql(SubSeq(rows, 1, Len(rows) - 1))

\* C15: when an earlier turn of the session generated SQL, the context the
\* next turn of the session gives to the translator holds that SQL
C15_ContextHasLastSql ==
    \A p \in Procs :
      (Prompted(p) /\ pc[p] \in Nodes \cup {"END"}) =>
        LET earlier == LastGeneratedSql(SelectSeqBy(chat_messages, arg[p].session_id))
        IN  earlier # <<>> => calls[p].prompt[1].context.last_sql = earlier

\* the translator answered in p's turn with a text the validator rejects
RejectedByValidator(p) ==
    /\ calls[p].llm # <<>>
    /\ calls[p].llm[1].ok
    /\ ~SqlValid(CleanSql(calls[p].llm[1].text))

\* C16: when the translator's text fails validation the turn goes from
\* generate_sql to handle_error without execute_query, and the QueryResult
\* returned has success = false and the validator's "Invalid SQL" reason as
\* its error
C16_InvalidSqlReported ==
    \A p \in Procs :
      (Returned(p) /\ RejectedByValidator(p)) =>
        /\ visited[p] = <<"understand_query", "generate_sql", "handle_error">>
        /\ calls[p].exec = <<>>
        /\ ret[p].success = FALSE
        /\ ret[p].error \in {ErrNotSelect, ErrNoFrom}

\* the store was asked to run the SQL of p's turn and failed / answered
ExecutionFailed(p) == calls[p].exec # <<>> /\ ~calls[p].exec[1].out.ok
ExecutionSucceeded(p) == calls[p].exec # <<>> /\ calls[p].exec[1].out.ok

\* C17: when the generated SQL passes validation and the store fails to run
\* it, the turn ends in handle_error after execute_query, and the QueryResult
\* returned has success = false, the execution error as its error, the
\* generated (non-empty) SQL as its sql and an empty table as its data; the
\* turn's query count stays 0
C17_ExecutionFailureReported ==
    \A p \in Procs :
      (Returned(p) /\ GeneratedValidSql(p) /\ ExecutionFailed(p)) =>
        /\ visited[p] = <<"understand_query", "generate_sql", "execute_query",
                          "handle_error">>
        /\ ret[p].success = FALSE
        /\ ret[p].error = <<"Q", "u", "e", "r", "y", " ", "e", "x", "e", "c", "u", "t", "i", "o", "n", " ", "f", "a", "i", "l", "e", "d", ":", " ">> \o calls[p].exec[1].out.text
        /\ ret[p].sql = CleanSql(calls[p].llm[1].text)
        /\ ret[p].sql = calls[p].exec[1].sql
        /\ ret[p].sql # <<>>
        /\ ret[p].data.rows = 0
        /\ ret[p].data.cols = 0
        /\ st[p].query_count = 0

\* a returned turn whose SQL the store failed to run
C17_Witness ==
    /\ Returned(Caller)
    /\ ExecutionFailed(Caller)
    /\ ret[Caller].sql = <<"S", "E", "L", "E", "C", "T", " ", "a", " ", "F", "R", "O", "M", " ", "t">>
    /\ ret[Caller].error = <<"Q", "u", "e", "r", "y", " ", "e", "x", "e", "c", "u", "t", "i", "o", "n", " ", "f", "a", "i", "l", "e", "d", ":", " ", "n", "o", " ", "s", "u", "c", "h", " ", "c", "o", "l", "u", "m", "n", ":", " ", "x">>

\* C18: when the generated SQL passes validation and the store runs it, the
\* turn goes through format_response and not handle_error, its query count
\* ends at 1, and the QueryResult returned has success = true, no error, the
\* generated SQL as its sql and the executed table as its data
C18_SuccessfulTurn ==
    \A p \in Procs :
      (Returned(p) /\ GeneratedValidSql(p) /\ ExecutionSucceeded(p)) =>
        /\ visited[p] = <<"understand_query", "generate_sql", "execute_query",
                          "format_response">>
        /\ st[p].query_count = 1
        /\ Len(calls[p].exec) = 1
        /\ ret[p].success = TRUE
        /\ ret[p].error = Null
        /\ ret[p].sql = CleanSql(calls[p].llm[1].text)
        /\ ret[p].data = calls[p].exec[1].out.frame

\* a returned turn whose SQL gave a table of three rows
C18_Witness ==
    /\ Returned(Caller)
    /\ ExecutionSucceeded(Caller)
    /\ ret[Caller].success
    /\ ret[Caller].data = Frame(3, 2, 7)
    /\ st[Caller].query_count = 1

\* the persisted transcript of a session: its rows of chat_messages in the
\* order they were inserted
Transcript(messages, sid) == SelectSeqBy(messages, sid)

\* a step leaves the rows of every session but sid as they are
OthersUntouched(sid) ==
    \A other \in SessionIds \ {sid} :
      /\ Transcript(chat_messages', other) = Transcript(chat_messages, other)
      /\ SelectSeqBy(chat_sessions', other) = SelectSeqBy(chat_sessions, other)

\* p's turn starts in this step
TurnStarts(p) == pc[p] = "idle" /\ pc'[p] = EntryPoint

\* C19: with every caller on a session of its own and the operations on the
\* history store interleaved in any order, no operation fails (no exception
\* leaves process_message, delete_session returns true, the holder of the
\* write lock can always go on), every append adds its one message at the end
\* of its session's transcript and touches no other session, every deletion
\* empties its own session only, every load yields its session's transcript,
\* and a completed turn finds its two messages, in order, at the end of its
\* session's transcript
C19_DisjointSessionsSafe ==
    /\ [](\A p \in Procs :
            /\ ret[p].kind # "raised"
            /\ ret[p].kind = "deleted" => ret[p].value
            /\ writer = p => pc[p] \in {"sv_update", "sv_insert_message", "sv_commit",
                                        "del_session", "del_commit"}
            /\ Returned(p) =>
                 LET mine == Transcript(chat_messages, arg[p].session_id) IN
                 /\ Len(mine) >= 2
                 /\ SubSeq(mine, Len(mine) - 1, Len(mine)) = log[p]
                 /\ \A i \in 1..Len(mine) :
                      mine[i].role = IF i % 2 = 1 THEN "user" ELSE "assistant")
    /\ [](\A i \in 1..Len(chat_messages) : \A j \in 1..Len(chat_messages) :
            i < j => chat_messages[i].id < chat_messages[j].id)
    /\ [][\A p \in Procs :
            /\ SaveCommits(p) =>
                 /\ Transcript(chat_messages', arg[p].session_id) =
                      Append(Transcript(chat_messages, arg[p].session_id),
                             chat_messages'[Len(chat_messages')])
                 /\ chat_messages'[Len(chat_messages')].session_id = arg[p].session_id
                 /\ chat_messages'[Len(chat_messages')].role = SaveArgs(p).role
                 /\ chat_messages'[Len(chat_messages')].content = SaveArgs(p).content
                 /\ OthersUntouched(arg[p].session_id)
            /\ DeleteReturns(p) =>
                 /\ Transcript(chat_messages', arg[p].session_id) = <<>>
                 /\ OthersUntouched(arg[p].session_id)
            /\ TurnStarts(p) =>
                 st'[p].messages =
                   ToMessages(Transcript(chat_messages, arg'[p].session_id))
                     \o <<HumanMessage(arg'[p].user_message)>>]_vars
    /\ [][(\A p \in Procs : ~SaveCommits(p) /\ ~DeleteReturns(p)) =>
            UNCHANGED <<chat_sessions, chat_messages>>]_vars

\* two turns on two sessions have returned, their appends having alternated
\* on the store
C19_Witness ==
    /\ \A p \in Procs : Returned(p)
    /\ Len(chat_messages) = 4
    /\ chat_messages[1].session_id # chat_messages[2].session_id
    /\ chat_messages[2].session_id # chat_messages[3].session_id
    /\ chat_messages[3].session_id # chat_messages[4].session_id

\* p's run of migrate_database is at the step that reads the columns
ReadsColumns(p) == pc[p] = "mig_table_info"

\* C20: migrate_database commits its steps together or not at all, so that
\* between runs no database has the session_name column and a session
\* without a name; a run that finds the column changes nothing (a second run
\* leaves what the first left); no run changes a name a session has; no run
\* creates the database file
C20_MigrationIdempotent ==
    /\ [](((\A p \in Procs : pc[p] = "idle") /\ ColumnExists(history_db)) =>
            \A i \in 1..Len(chat_sessions) : chat_sessions[i].session_name # Null)
    /\ [][\A p \in Procs :
            (ReadsColumns(p) /\ ColumnExists(history_db)) =>
              /\ pc'[p] = "idle"
              /\ UNCHANGED <<history_db, chat_sessions, chat_messages>>]_vars
    /\ [][ColumnExists(history_db) =>
            /\ Len(chat_sessions') = Len(chat_sessions)
            /\ \A i \in 1..Len(chat_sessions) :
                 chat_sessions[i].session_name # Null =>
                   chat_sessions'[i].session_name = chat_sessions[i].session_name]_vars
    /\ [][~history_db.exists =>
            UNCHANGED <<history_db, chat_sessions, chat_messages>>]_vars

\* the text without the characters of `marks` at its end
WithoutTrailing(t, marks) ==
    LET kept == {i \in 1..Len(t) : t[i] \notin marks} IN
    IF kept = {} THEN <<>>
    ELSE SubSeq(t, 1, CHOOSE i \in kept : \A j \in kept : i >= j)

\* the display name of a session created from this user message
ExpectedName(message) ==
    LET cut == WithoutTrailing(Trimmed(Prefix(message, 40)), {"?", ".", "!", ","})
    IN  IF Len(cut) < 10 THEN NameNewConversation ELSE cut

\* the session_name of the session's row
NameOf(rows, sid) ==
    rows[CHOOSE i \in 1..Len(rows) : rows[i].session_id = sid].session_name

\* p's save_message of a user message commits the row of a new session
CreatesSession(p) ==
    /\ SaveCommits(p)
    /\ phase[p] = "user"
    /\ ~existing[p]

\* C21: an append that creates a session from a user message names it after
\* the first 40 characters of the message, trimmed and without trailing
\* '?', '.', '!', ',', or "New Conversation" when that is shorter than 10
\* characters; no name is longer than 40 characters; no step changes the name
\* of a session that is there before and after it
C21_SessionName ==
    /\ [][\A p \in Procs : CreatesSession(p) =>
            /\ SessionRows(chat_sessions, arg[p].session_id) = 0
            /\ SessionRows(chat_sessions', arg[p].session_id) = 1
            /\ NameOf(chat_sessions', arg[p].session_id)
                 = ExpectedName(arg[p].user_message)]_vars
    /\ [](\A i \in 1..Len(chat_sessions) : Len(chat_sessions[i].session_name) <= 40)
    /\ [][\A i \in 1..Len(chat_sessions) : \A j \in 1..Len(chat_sessions') :
            chat_sessions[i].session_id = chat_sessions'[j].session_id
              => chat_sessions[i].session_name = chat_sessions'[j].session_name]_vars

\* a session created from an utterance of more than 40 characters, whose cut
\* ended in a comma and a blank, has had a second turn with another utterance
C21_Witness ==
    \E i \in 1..Len(chat_sessions) :
      /\ chat_sessions[i].session_name = <<"W", "h", "i", "c", "h", " ", "s", "e", "l", "l", "e", "r", "s", " ", "s", "h", "i", "p", "p", "e", "d", " ", "l", "a", "t", "e", " ", "i", "n", " ", "M", "a", "r", "c", "h", " ", "2", "0">>
      /\ Returned(Caller)
      /\ arg[Caller].session_id = chat_sessions[i].session_id
      /\ arg[Caller].user_message = <<"h", "i", "?">>
      /\ Len(SelectSeqBy(chat_messages, chat_sessions[i].session_id)) = 4

\* the session's persisted messages in the order they were stored
Persisted(sid) == SelectSeqBy(chat_messages, sid)

\* the message list is these stored rows, role by role and content by
\* content, followed by the utterance
ReplayOf(messages, rows, utterance) ==
    /\ Len(messages) = Len(rows) + 1
    /\ \A i \in 1..Len(rows) :
         /\ messages[i].content = rows[i].content
         /\ rows[i].role = "user" => messages[i].type = "human"
         /\ rows[i].role = "assistant" => messages[i].type = "ai"
    /\ messages[Len(messages)] = HumanMessage(utterance)

\* C22: the message list a turn starts the state machine with is the
\* caller's in-memory history followed by the new utterance when the caller
\* passed one, and otherwise the last 10 persisted messages of the session,
\* in stored order and with their roles, followed by the new utterance
C22_WorkingMessages ==
    [][\A p \in Procs : TurnStarts(p) =>
         LET given == arg'[p].existing_messages
             rows == Persisted(arg'[p].session_id)
             n == Len(rows)
         IN  /\ pc'[p] = "understand_query"
             /\ given # <<>> =>
                  st'[p].messages = given \o <<HumanMessage(arg'[p].user_message)>>
             /\ given = <<>> =>
                  ReplayOf(st'[p].messages,
                           SubSeq(rows, IF n > 10 THEN n - 9 ELSE 1, n),
                           arg'[p].user_message)]_vars

\* a turn started without an in-memory history on a session of 11 persisted
\* messages: the list is the last ten, an assistant message first, and the
\* utterance
C22_Witness ==
    /\ pc[Caller] = "understand_query"
    /\ arg[Caller].existing_messages = <<>>
    /\ Len(Persisted(arg[Caller].session_id)) = 11
    /\ Len(st[Caller].messages) = 11
    /\ st[Caller].messages[1].type = "ai"
    /\ st[Caller].messages[2] = HumanMessage(PastQuestion(2))
    /\ st[Caller].messages[11] = HumanMessage(arg[Caller].user_message)

\* the text has white space at an end, or two white-space characters in a row
LooseSpace(t) ==
    \/ t # <<>> /\ (IsSpace(t[1]) \/ IsSpace(t[Len(t)]))
    \/ \E i \in 1..(Len(t) - 1) : IsSpace(t[i]) /\ IsSpace(t[i + 1])

\* the translator answered in p's turn; its cleaned text is the SQL candidate
Translated(p) ==
    /\ arg[p].op = "process_message"
    /\ calls[p].llm # <<>>
    /\ calls[p].llm[1].ok

\* C23: whatever text the translator returns, the SQL candidate the cleaning
\* step makes of it holds no code-fence marker, has no leading language tag,
\* does not end with ';', has no white space at its ends and no two
\* white-space characters in a row, and is left as it is by the cleaning step
C23_CleaningNormalises ==
    \A p \in Procs : Translated(p) =>
      LET candidate == st[p].last_sql IN
      /\ candidate = CleanSql(calls[p].llm[1].text)
      /\ ~Contains(candidate, Fence)
      /\ ~BeginsWithWord(candidate, <<"s", "q", "l">>)
      /\ candidate # <<>> => candidate[Len(candidate)] # ";"
      /\ ~LooseSpace(candidate)
      /\ CleanSql(candidate) = candidate

\* the message list p's turn entered the graph with (format_response and
\* handle_error append the one assistant message of the turn)
EntryMessages(p) ==
    IF \E i \in 1..Len(visited[p]) : visited[p][i] \in {"format_response", "handle_error"}
    THEN SubSeq(st[p].messages, 1, Len(st[p].messages) - 1)
    ELSE st[p].messages

\* the latest message of the list is missing, is no user message, or is a
\* user message without text
NoUserInput(messages) ==
    \/ messages = <<>>
    \/ messages[Len(messages)].type # "human"
    \/ messages[Len(messages)].content = <<>>

\* C24: a turn whose latest message is missing, is not a user message or is a
\* user message with empty text gets an input error in understand_query and
\* goes to handle_error; neither the translator nor the executor is invoked
C24_InputErrorNoCalls ==
    \A p \in Procs :
      (arg[p].op = "process_message" /\ visited[p] # <<>>
         /\ NoUserInput(EntryMessages(p))) =>
        /\ st[p].error = ErrNoUserMessage
        /\ pc[p] \in {"handle_error", "END"} \/ GraphDone(p)
        /\ \A i \in 1..Len(visited[p]) :
             visited[p][i] \in {"understand_query", "handle_error"}
        /\ calls[p].llm = <<>>
        /\ calls[p].exec = <<>>

\* the error indicator was set in p's turn: branch[p] is the state dict as the
\* last node and its conditional-edge function left it
ErrorSet(p) == arg[p].op = "process_message" /\ branch[p].error # <<>>

\* C25: once the error indicator is set in a turn, the next node is
\* handle_error, no later step invokes the translator or the executor, the
\* error text is neither overwritten nor cleared, and the QueryResult reports
\* that first error
C25_TerminalOnFirstError ==
    /\ [](\A p \in Procs : ErrorSet(p) =>
            /\ pc[p] \in Nodes => pc[p] = "handle_error"
            /\ st[p].error = branch[p].error
            /\ Returned(p) =>
                 /\ ret[p].success = FALSE
                 /\ ret[p].error = branch[p].error)
    /\ [][\A p \in Procs : (ErrorSet(p) /\ pc[p] # "idle") =>
            /\ calls'[p] = calls[p]
            /\ branch'[p].error = branch[p].error]_vars

\* C26: in every state of the history store, every persisted message belongs
\* to a session whose row exists, whatever the interleaving of save_message
\* and delete_session calls, on the same session id included
C26_MessagesHaveSession ==
    \A i \in 1..Len(chat_messages) :
      SessionRows(chat_sessions, chat_messages[i].session_id) >= 1

\* the row without its last_activity
Lasting(row) ==
    [session_id |-> row.session_id, session_name |-> row.session_name,
     created_at |-> row.created_at]

\* p's delete_session commits in this step
DeleteCommits(p) == pc[p] = "del_commit" /\ pc'[p] = "idle" /\ ret'[p].value

\* C27: persisted messages are immutable and the history operations touch
\* their own session only: a committed append adds one message to its session
\* and changes nothing else but that session's last_activity (creating the
\* session's row when there is none), a committed delete_session leaves the
\* rows and messages of every other session as they are, and no step changes
\* a message that is in the store before and after it
C27_SessionScoped ==
    /\ [][\A p \in Procs : SaveCommits(p) =>
            LET sid == arg[p].session_id IN
            /\ Len(chat_messages') = Len(chat_messages) + 1
            /\ SubSeq(chat_messages', 1, Len(chat_messages)) = chat_messages
            /\ LET new == chat_messages'[Len(chat_messages')] IN
               /\ new.session_id = sid
               /\ new.role = SaveArgs(p).role
               /\ new.content = SaveArgs(p).content
            /\ OthersUntouched(sid)
            /\ \A i \in 1..Len(chat_sessions) : \A j \in 1..Len(chat_sessions') :
                 chat_sessions[i].session_id = chat_sessions'[j].session_id
                   => Lasting(chat_sessions[i]) = Lasting(chat_sessions'[j])]_vars
    /\ [][\A p \in Procs : DeleteCommits(p) => OthersUntouched(arg[p].session_id)]_vars
    /\ [][\A i \in 1..Len(chat_messages) : \A j \in 1..Len(chat_messages') :
            chat_messages[i].id = chat_messages'[j].id
              => chat_messages[i] = chat_messages'[j]]_vars

\* an append to one session was committed a second after the last activity
\* of the other session, which kept its time and its messages
C27_Witness ==
    /\ Len(chat_sessions) = 2
    /\ chat_sessions[1].last_activity < chat_sessions[2].last_activity
    /\ Transcript(chat_messages, chat_sessions[1].session_id) # <<>>
    /\ \E p \in Procs :
         /\ pc[p] \in {"saved_user", "saved_assistant"}
         /\ arg[p].session_id = chat_sessions[2].session_id
         /\ log[p] # <<>>
         /\ log[p][Len(log[p])].timestamp = chat_sessions[2].last_activity

\* the assistant message p's turn persisted (the second row it committed)
AssistantRow(p) == log[p][2]

\* C28: the assistant message a turn persists agrees with the QueryResult the
\* turn returns: same success flag, same SQL, and a result count that is the
\* number of rows of the result's data (0 on a failed turn)
C28_PersistedAgreesWithResult ==
    \A p \in Procs :
      (Returned(p) /\ Len(log[p]) = 2) =>
        /\ AssistantRow(p).role = "assistant"
        /\ AssistantRow(p).success = ret[p].success
        /\ AssistantRow(p).sql_query = ret[p].sql
        /\ AssistantRow(p).result_count = ret[p].data.rows
        /\ ~ret[p].success => AssistantRow(p).result_count = 0

\* C29: a turn appends exactly one assistant message to its in-flight message
\* list, right after the user's utterance, and the content persisted for the
\* assistant turn is the content of that message, whether the turn ended in
\* format_response or in handle_error
C29_PersistedIsInFlight ==
    \A p \in Procs :
      (Returned(p) /\ Len(log[p]) = 2) =>
        LET messages == st[p].messages
            n == Len(messages)
        IN  /\ n >= 2
            /\ messages[n].type = "ai"
            /\ messages[n - 1] = HumanMessage(arg[p].user_message)
            /\ Occurrences(visited[p], "format_response")
                 + Occurrences(visited[p], "handle_error") = 1
            /\ log[p][2].content = messages[n].content

\* the chat page is between two prompts
UiAtRest == prompt = Null /\ pc[Caller] = "idle"

\* C30: for a session of at most 10 persisted messages, the message list
\* rebuilt from the store (by get_recent_context_from_db, and by the page's
\* load of the session) is the list of (role, content) pairs the page has
\* kept in memory turn by turn, so the next turn gets the same context from
\* either
C30_MemoryWhereverKept ==
    (UiAtRest /\ Len(Persisted(session_state.session_id)) <= 10) =>
      /\ GetRecentContextFromDb(Committed, session_state.session_id, RecentLimit)
           = session_state.langgraph_messages
      /\ RestoredMessages(Committed, session_state.session_id)
           = session_state.langgraph_messages

(***************************************************************************)
(* C31.  Whatever the chat page has done before (New Chat, load a session, *)
(* delete a session, ask a question), whatever another caller does to the  *)
(* store between its steps and whichever statements the store fails, the   *)
(* page calls delete_session only for a session id other than its current  *)
(* one, its current session stays the same while its delete runs, and no   *)
(* step of its delete removes the session row of the current session.      *)
(***************************************************************************)
UiCallsDelete(p) == pc[p] = "idle" /\ pc'[p] \in DeleteSteps
\* a step of p's delete_session
UiDeleteStep(p) == pc[p] \in DeleteSteps /\ pc'[p] # pc[p]
C31_ActiveSessionNeverDeleted ==
    [][ /\ UiCallsDelete(Caller) =>
             arg'[Caller].session_id # session_state.session_id
        /\ pc[Caller] \in DeleteSteps =>
             /\ arg[Caller].session_id # session_state.session_id
             /\ session_state' = session_state
        /\ UiDeleteStep(Caller) =>
             (SessionExists(Committed, session_state.session_id) =>
                SessionExists(Committed', session_state.session_id))
      ]_vars
\* the page has deleted another session, one of its list, while its current
\* session has its session row
C31_Witness ==
    /\ ret[Caller].kind = "deleted"
    /\ ret[Caller].value
    /\ button = [key |-> "delete", session_id |-> ret[Caller].session_id]
    /\ ret[Caller].session_id # session_state.session_id
    /\ ~SessionExists(Committed, ret[Caller].session_id)
    /\ SessionExists(Committed, session_state.session_id)

(***************************************************************************)
(* C32.  process_message leaves the list the caller passed as              *)
(* existing_messages as it was: when the turn starts, the caller's list is  *)
(* the working list without the new user message (or the empty list), and  *)
(* no later step of the turn, up to its return on the success path, on an  *)
(* error path or with an exception, changes it; neither the user message   *)
(* nor the assistant message of the turn is in it.                         *)
(***************************************************************************)
InTurn(p) == arg[p].op = "process_message" /\ pc[p] # "idle"
C32_ExistingMessagesUntouched ==
    [][\A p \in Procs :
         /\ TurnStarts(p) =>
              \/ arg'[p].existing_messages = <<>>
              \/ st'[p].messages = arg'[p].existing_messages
                                   \o <<HumanMessage(arg'[p].user_message)>>
         /\ InTurn(p) =>
              arg'[p].existing_messages = arg[p].existing_messages
      ]_vars
\* a turn that was given a conversation has returned its result; its working
\* list holds the conversation, the user message and the assistant message
C32_Witness ==
    /\ ret[Caller].kind = "QueryResult"
    /\ arg[Caller].existing_messages # <<>>
    /\ Len(st[Caller].messages) = Len(arg[Caller].existing_messages) + 2
    /\ st[Caller].messages[Len(st[Caller].messages)].type = "ai"

(***************************************************************************)
(* C33.  Two save_message calls for one session id that has no session row *)
(* yet, running at once: in every interleaving neither raises for the      *)
(* session row the other inserted (both complete, so both messages are     *)
(* persisted), and the session has one session row.                        *)
(***************************************************************************)
RowsOfSession(sid) ==
    { i \in 1..Len(chat_sessions) : chat_sessions[i].session_id = sid }
C33_ConcurrentFirstAppends ==
    /\ \A p \in Procs :
         ret[p].kind = "raised" => ret[p].error # "IntegrityError"
    /\ \A sid \in SessionIds : Cardinality(RowsOfSession(sid)) <= 1
\* the part that holds: no session id ever has two session rows
C33_OneSessionRow ==
    \A sid \in SessionIds : Cardinality(RowsOfSession(sid)) <= 1

====
